---- MODULE Spec2Model ----
(***************************************************************************)
(* A model of dewey, a local semantic-search service: the blocked on-disk  *)
(* embedding store and its directory (dbio.rs), the block-granular LRU     *)
(* embedding cache (cache.rs), the HNSW index (hnsw.rs) and the server     *)
(* that answers queries under one lock (bin/server.rs, lib.rs).            *)
(*                                                                         *)
(* The module holds several specifications over one set of variables:      *)
(*   SpecCache   the embedding cache over a fixed store                    *)
(*   SpecStore   ingest, index build, file update and reblock on the data  *)
(*               directory                                                 *)
(*   SpecServer  the server's handler threads around the index mutex       *)
(*   SpecIndex   the index build, one node at a time, then queries and     *)
(*               node removals on the graph it built                       *)
(* Each specification moves only its own variables.                        *)
(***************************************************************************)
EXTENDS Integers, Sequences, FiniteSets, TLC

VARIABLES
    \* ---- the data directory (dbio.rs)
    blocks,            \* block number -> sequence of Embedding records (the block files)
    directory,         \* the directory file: sequence of [id, filepath, block] lines
    \* ---- EmbeddingCache (cache.rs:207-220)
    lru_heap,          \* the nodes the list's raw pointers address: handle -> Node
    lru_front,         \* LinkedList.front
    lru_back,          \* LinkedList.back
    lru_len,           \* LinkedList.len
    node_map,          \* EmbeddingCache.node_map: id -> node handle
    embeddings,        \* EmbeddingCache.embeddings: id -> Embedding
    cache_directory,   \* EmbeddingCache.directory: id -> block number
    dirty_embeddings,  \* EmbeddingCache.dirty_embeddings
    max_size,          \* EmbeddingCache.max_size
    cache_hist,        \* what the calls made on the cache did: status, recency, loads
    \* ---- HNSW (hnsw.rs:93-98), as held by the server and as serialized
    index_size,        \* HNSW.size
    layers,            \* HNSW.layers, top layer first
    store_hist,        \* the last operation run on the data directory and how it ended
    \* ---- the server (bin/server.rs): one handler thread per connection
    pc,                \* handler -> where it stands in handle_client
    req,               \* handler -> the request it read
    resp,              \* handler -> the response it wrote
    mutex,             \* the Mutex around the index: its holder and whether it is poisoned
    to_delete,         \* update_file_embeddings: the old ids still to be removed
    \* ---- files as the bytes they hold (hnsw.rs serialize, dbio.rs to_file)
    files,             \* file name -> the bytes of the file, <<>> while it does not exist
    codec_hist,        \* the values last written to the files and the last value read back
    \* ---- the chunker (parsing.rs)
    source_files,      \* filepath -> the characters of the source file
    chunks,            \* the last call of a splitter and the chunks it returned
    batches,           \* the last call of batch_sources and the batches it returned
    \* ---- one connection (bin/server.rs handle_client, lib.rs DeweyClient)
    stream,            \* the TcpStream: the bytes in flight each way, and whether it is closed
    client,            \* the requests the client wrote and what it read back
    \* ---- reblock's rewrite of the data directory (dbio.rs:215-304)
    temp_dir,          \* the block files of $DATA_DIR/temp
    directory_exists,  \* whether the directory file exists
    reblock,           \* where reblock stands, the directory it collected
    \* ---- one call of embed_bulk (openai.rs:263-338)
    channel,           \* the mpsc channel: the batches queued, whether tx is dropped
    thread_pool,       \* the worker threads: where each stands, the batch it holds
    bulk               \* embed_bulk itself, the shared embeddings, the batches' outcomes

storeVars == <<blocks, directory>>
cacheVars == <<lru_heap, lru_front, lru_back, lru_len, node_map, embeddings,
               cache_directory, dirty_embeddings, max_size, cache_hist>>
indexVars == <<index_size, layers, store_hist>>
serverVars == <<pc, req, resp, mutex, to_delete>>
codecVars == <<files, codec_hist>>
chunkVars == <<source_files, chunks, batches>>
connVars == <<stream, client>>
reblockVars == <<temp_dir, directory_exists, reblock>>
embedVars == <<channel, thread_pool, bulk>>
auxVars == <<codecVars, chunkVars, connVars, reblockVars, embedVars>>
coreVars == <<storeVars, cacheVars, indexVars, serverVars>>
vars == <<coreVars, auxVars>>

----------------------------------------------------------------------------
(* Bounds of the model *)

\* dbio.rs:15 sets BLOCK_SIZE to 1024; the model runs the same code with small blocks
BLOCK_SIZE == 2
\* most chunks one file contributes to a store the cache specification starts from
MaxCacheChunks == 2
\* largest max_size the cache specification constructs a cache with, above BLOCK_SIZE
MaxCacheExtra == 1
\* list nodes that can be allocated and still referenced at one time
MaxNodes == 6
\* distinct embedding vectors (unit vectors 60 degrees apart)
NumVecs == 4
\* fewest chunks a file of the ledger has when the store is ingested in full;
\* a file has this many or one more
MinChunks == 3
\* most chunks a re-embedded file has in update_file_embeddings
MaxNewChunks == 2
\* operations run on the data directory after the first full ingest
MaxStoreOps == 3
\* connections the server accepts, each handled by a thread of its own
NumWorkers == 3
\* the k of a query that asks for no more than ef results
QueryK == 2
\* handle_client passes ef = 200 to HNSW::query
EF == 200
\* a small ef, one that a traversal of the model's graphs reaches
QueryEf == 2
\* nodes of one build that draw a band above the bottom layer
MaxUpper == 2
\* remove_node calls made on one built graph
MaxRemoved == 1
\* the ids remove_node is called with
RemoveIds == {0, 1}

----------------------------------------------------------------------------
(* Helpers *)

Min(a, b) == IF a < b THEN a ELSE b
MaxOf(S) == CHOOSE x \in S : \A y \in S : y <= x
MinOf(S) == CHOOSE x \in S : \A y \in S : x <= y
Range(s) == {s[i] : i \in 1..Len(s)}
Without(s, x) == SelectSeq(s, LAMBDA y : y # x)
\* position of x in the sequence s (0 when absent)
Pos(s, x) == IF x \in Range(s) THEN MinOf({i \in 1..Len(s) : s[i] = x}) ELSE 0
\* the function f without the key k
Remove(f, k) == [x \in DOMAIN f \ {k} |-> f[x]]
\* the function f with f[k] = v inserted or overwritten
Insert(f, k, v) == [x \in DOMAIN f \cup {k} |-> IF x = k THEN v ELSE f[x]]
EmptyMap == [x \in {} |-> 0]
\* Op applied to a value computed once
With(v, Op(_)) == Op(v)

----------------------------------------------------------------------------
(* The block store: sync_index, get_directory, update_file_embeddings *)

\* the filepaths of the ledger; one of them holds a space
Paths == {"a", "b", "c d"}
\* the tags the ledger attaches to each file
LedgerMeta(p) == CASE p = "a" -> {"rust"} [] p = "b" -> {"go"} [] OTHER -> {"rust", "code"}

\* what embed_bulk returns for one source with c chunks: ids are 0 until renumbered
Embedded(fp, meta, c, seed) ==
    [i \in 1..c |-> [id |-> 0, filepath |-> fp, meta |-> meta, vec |-> (seed + i) % NumVecs]]

\* embed_bulk over the whole ledger, counts[p] chunks for file p
EmbeddedLedger(counts, seed) ==
    Embedded("a", LedgerMeta("a"), counts["a"], seed)
    \o Embedded("b", LedgerMeta("b"), counts["b"], seed + 1)
    \o Embedded("c d", LedgerMeta("c d"), counts["c d"], seed + 2)

\* sync_index: e.id = i for the i-th embedding
Renumber(embs) == [i \in 1..Len(embs) |-> [embs[i] EXCEPT !.id = i - 1]]

\* sync_index: embeddings.chunks(BLOCK_SIZE), block i written to the file named i
SyncIndexBlocks(embs) ==
    LET n == Len(embs)
        nb == (n + BLOCK_SIZE - 1) \div BLOCK_SIZE
    IN [b \in 0..(nb - 1) |->
           SubSeq(Renumber(embs), b * BLOCK_SIZE + 1, Min((b + 1) * BLOCK_SIZE, n))]

\* sync_index: one directory entry per embedding, in block order
SyncIndexDirectory(embs) ==
    [i \in 1..Len(embs) |->
        [id |-> i - 1, filepath |-> embs[i].filepath, block |-> (i - 1) \div BLOCK_SIZE]]

\* get_directory splits a line at spaces and joins the middle parts with "":
\* the filepath it returns has lost its spaces
Unspace(p) == IF p = "c d" THEN "cd" ELSE p

\* get_directory: the three maps, later lines overwriting earlier ones
GetDirectory(dir) ==
    LET idx == 1..Len(dir)
        lastId(i) == MaxOf({k \in idx : dir[k].id = i})
        lastFp(p) == MaxOf({k \in idx : Unspace(dir[k].filepath) = p})
    IN [id_map |-> [i \in {dir[k].id : k \in idx} |-> dir[lastId(i)].block],
        file_map |-> [p \in {Unspace(dir[k].filepath) : k \in idx} |-> dir[lastFp(p)].block],
        file_id_map |-> [p \in {Unspace(dir[k].filepath) : k \in idx} |-> dir[lastFp(p)].id]]

\* get_directory parses every line with unwrap: an empty file has one empty line
DirectoryParses(dir) == Len(dir) > 0

\* update_file_embeddings: the ids the target block holds for filepath
ToDelete(block, filepath) ==
    LET hit == SelectSeq(block, LAMBDA e : e.filepath = filepath)
    IN [i \in 1..Len(hit) |-> hit[i].id]

\* update_file_embeddings: meta is overwritten by every matching record
MetaOf(block, filepath) ==
    LET hit == SelectSeq(block, LAMBDA e : e.filepath = filepath)
    IN IF Len(hit) = 0 THEN {} ELSE hit[Len(hit)].meta

\* update_file_embeddings: the rewritten target block; new ids count up from id_start
UpdatedBlock(block, filepath, id_start, new_embeddings) ==
    SelectSeq(block, LAMBDA e : e.filepath # filepath)
    \o [i \in 1..Len(new_embeddings) |-> [new_embeddings[i] EXCEPT !.id = id_start + (i - 1)]]

\* update_file_embeddings: id_start
IdStart(dir) == Cardinality(DOMAIN GetDirectory(dir).id_map) + 1

\* the block files after update_file_embeddings(filepath) re-embedded it into c chunks
UpdateFileBlocks(blks, dir, filepath, c, seed) ==
    LET d == GetDirectory(dir)
        target == d.file_map[filepath]
        old == blks[target]
    IN [blks EXCEPT ![target] =
            UpdatedBlock(old, filepath, IdStart(dir),
                         Embedded(filepath, MetaOf(old, filepath), c, seed))]

----------------------------------------------------------------------------
(* LinkedList (cache.rs:13-109).  Nodes live on the heap and are addressed *)
(* by raw pointers; a handle stands for an address, NoNode for None.  A    *)
(* cell is "free" (never allocated, or leaked and unreferenced), "live"    *)
(* (allocated by push_front) or "freed" (dropped by pop_back).  The        *)
(* operators work on a record c that holds the cache's fields, and thread  *)
(* c.status: "ok", "panic" (an unwrap of None), "ub" (a freed node is      *)
(* dereferenced), "underflow" (len -= 1 at len = 0) or "nomem" (the model  *)
(* has no handle left).                                                    *)

NoNode == 0
Handles == 1..MaxNodes
FreeCell == [elem |-> 0, front |-> NoNode, back |-> NoNode, st |-> "free"]

Fail(c, why) == [c EXCEPT !.status = why]
Freed(c, h) == h # NoNode /\ c.heap[h].st = "freed"

\* LinkedList::push_front
PushFront(c, elem) ==
    IF c.status # "ok" THEN c
    ELSE LET free == {h \in Handles : c.heap[h].st = "free"}
             old == c.front
         IN IF free = {} THEN Fail(c, "nomem")
            ELSE IF Freed(c, old) THEN Fail(c, "ub")
            ELSE LET new == MinOf(free)
                     cell == [elem |-> elem, front |-> NoNode, back |-> old, st |-> "live"]
                 IN [c EXCEPT
                        !.heap = IF old # NoNode
                                 THEN [c.heap EXCEPT ![new] = cell, ![old].front = new]
                                 ELSE [c.heap EXCEPT ![new] = cell],
                        !.back = IF old # NoNode THEN c.back ELSE new,
                        !.front = new,
                        !.len = c.len + 1]

\* LinkedList::pop_back, on a list whose back is Some; the node is dropped
PopBack(c) ==
    IF c.status # "ok" THEN c
    ELSE LET node == c.back
             newBack == c.heap[node].front
         IN IF Freed(c, node) \/ Freed(c, newBack) THEN Fail(c, "ub")
            ELSE [c EXCEPT
                    !.heap = IF newBack # NoNode
                             THEN [c.heap EXCEPT ![node].st = "freed", ![newBack].back = NoNode]
                             ELSE [c.heap EXCEPT ![node].st = "freed"],
                    !.back = newBack,
                    !.front = IF newBack # NoNode THEN c.front ELSE NoNode,
                    !.len = IF c.len > 0 THEN c.len - 1 ELSE c.len]

\* Node::detach: the neighbours are linked to each other; the list's own
\* front and back, the node's links and len are left as they are
Detach(c, node) ==
    IF c.status # "ok" THEN c
    ELSE LET f == c.heap[node].front
             b == c.heap[node].back
         IN IF Freed(c, node) \/ Freed(c, f) \/ Freed(c, b) THEN Fail(c, "ub")
            ELSE LET h1 == IF f # NoNode THEN [c.heap EXCEPT ![f].back = b] ELSE c.heap
                     h2 == IF b # NoNode THEN [h1 EXCEPT ![b].front = f] ELSE h1
                 IN [c EXCEPT !.heap = h2]

\* self.lru.len -= 1 on a usize
DecLen(c) ==
    IF c.status # "ok" THEN c
    ELSE IF c.len = 0 THEN Fail(c, "underflow")
    ELSE [c EXCEPT !.len = c.len - 1]

\* the cells the cache's pointers still lead to, in the order a walk from
\* list.back, list.front and the node_map entries meets them
RECURSIVE Visit(_, _, _)
Visit(c, work, seen) ==
    IF work = <<>> THEN seen
    ELSE LET h == Head(work)
         IN IF h = NoNode \/ h \in Range(seen) THEN Visit(c, Tail(work), seen)
            ELSE Visit(c, <<c.heap[h].front, c.heap[h].back>> \o Tail(work), Append(seen, h))

RECURSIVE Ascending(_)
Ascending(S) == IF S = {} THEN <<>> ELSE <<MinOf(S)>> \o Ascending(S \ {MinOf(S)})

\* addresses carry no meaning: the cells are renamed in walk order, and the
\* cells no pointer leads to any more (they take no part in any later step)
\* are returned to the model's pool
Collect(c) ==
    LET ids == Ascending(DOMAIN c.node_map)
        order == Visit(c, <<c.back, c.front>> \o [i \in 1..Len(ids) |-> c.node_map[ids[i]]], <<>>)
        ren(h) == IF h = NoNode THEN NoNode ELSE Pos(order, h)
    IN [c EXCEPT
          !.heap = [k \in Handles |->
                       IF k <= Len(order)
                       THEN [elem |-> c.heap[order[k]].elem,
                             front |-> ren(c.heap[order[k]].front),
                             back |-> ren(c.heap[order[k]].back),
                             st |-> c.heap[order[k]].st]
                       ELSE FreeCell],
          !.front = ren(c.front),
          !.back = ren(c.back),
          !.node_map = [i \in DOMAIN c.node_map |-> ren(c.node_map[i])]]

----------------------------------------------------------------------------
(* EmbeddingCache (cache.rs:207-328) *)

\* the order the ids were last pushed to the front in, most recent first
Touch(mru, id) == <<id>> \o Without(mru, id)

\* an eviction breaks the LRU order when the id it drops was used more
\* recently than an id that stays cached
OutOfOrder(c, popped) ==
    /\ popped \in DOMAIN c.embeddings
    /\ \E y \in DOMAIN c.embeddings \ {popped} : Pos(c.mru, y) > Pos(c.mru, popped)

\* load_embedding_block, lines 259-263: make room for one record
Evict(c) ==
    IF c.status # "ok" \/ c.len < c.max_size THEN c
    ELSE IF c.back = NoNode THEN Fail(c, "panic")
    ELSE IF Freed(c, c.back) THEN Fail(c, "ub")
    ELSE LET popped == c.heap[c.back].elem
             c1 == PopBack(c)
         IN [c1 EXCEPT !.embeddings = Remove(c.embeddings, popped),
                       !.node_map = Remove(c.node_map, popped),
                       !.mru = Without(c.mru, popped),
                       !.lruViolated = c.lruViolated \/ OutOfOrder(c, popped)]

\* load_embedding_block, lines 265-275: insert one record at the front
InsertRecord(c, e) ==
    LET c1 == IF c.status = "ok" /\ e.id \in DOMAIN c.node_map
              THEN DecLen(Detach(c, c.node_map[e.id]))
              ELSE c
        c2 == PushFront(c1, e.id)
    IN IF c2.status # "ok" THEN c2
       ELSE [c2 EXCEPT !.embeddings = Insert(c1.embeddings, e.id, e),
                       !.node_map = Insert(c1.node_map, e.id, c2.front),
                       !.mru = Touch(c.mru, e.id)]

\* load_embedding_block, lines 258-276: the loop over the block's records
RECURSIVE LoadRecords(_, _, _)
LoadRecords(c, recs, i) ==
    IF i > Len(recs) \/ c.status # "ok" THEN c
    ELSE LoadRecords(InsertRecord(Evict(c), recs[i]), recs, i + 1)

\* load_embedding_block: Err (the cache untouched) when the id is not in the
\* directory or its block file cannot be read
LoadFails(c, blks, embedding_id) ==
    \/ embedding_id \notin DOMAIN c.directory
    \/ c.directory[embedding_id] \notin DOMAIN blks

LoadEmbeddingBlock(c, blks, embedding_id) ==
    LET block_number == c.directory[embedding_id]
        c1 == [c EXCEPT !.loads = [c.loads EXCEPT ![block_number] = Min(@ + 1, 2)]]
    IN LoadRecords(c1, blks[block_number], 1)

\* get, lines 308-319: a new node at the front, the old one detached
MoveToFront(c, embedding_id) ==
    IF c.status # "ok" THEN c
    ELSE IF embedding_id \notin DOMAIN c.node_map THEN Fail(c, "panic")
    ELSE LET node == c.node_map[embedding_id]
             c1 == PushFront(c, embedding_id)
             c2 == DecLen(Detach(c1, node))
         IN IF c2.status # "ok" THEN c2
            ELSE [c2 EXCEPT !.node_map = Insert(c.node_map, embedding_id, c1.front),
                            !.mru = Touch(c.mru, embedding_id)]

\* get, lines 291-306: the record is fetched, its block loaded when needed
Fetch(c, blks, embedding_id) ==
    IF embedding_id \in DOMAIN c.embeddings /\ embedding_id \notin c.dirty
    THEN c
    ELSE LET c1 == LoadEmbeddingBlock(c, blks, embedding_id)
         IN IF c1.status # "ok" THEN c1
            ELSE IF embedding_id \notin DOMAIN c1.embeddings THEN Fail(c1, "panic")
            ELSE [c1 EXCEPT !.dirty = c.dirty \ {embedding_id}]

\* EmbeddingCache::get when the block load does not fail
GetLoaded(c, blks, embedding_id) ==
    Collect(MoveToFront(Fetch(c, blks, embedding_id), embedding_id))

\* EmbeddingCache::new: panics when max_size < BLOCK_SIZE, fails when the
\* directory cannot be read
NewCache(dir, size) ==
    [heap |-> [h \in Handles |-> FreeCell], front |-> NoNode, back |-> NoNode, len |-> 0,
     node_map |-> EmptyMap, embeddings |-> EmptyMap, dirty |-> {},
     directory |-> GetDirectory(dir).id_map, max_size |-> size,
     status |-> "ok", mru |-> <<>>, lruViolated |-> FALSE,
     loads |-> [b \in {dir[k].block : k \in 1..Len(dir)} |-> 0]]

----------------------------------------------------------------------------
(* SpecCache: one EmbeddingCache over a store left by sync_index and, in   *)
(* some initial states, one update_file_embeddings.                        *)

\* no index has been built, no server runs
NoIndex ==
    /\ index_size = 0
    /\ layers = <<>>
    /\ store_hist = [op |-> "none", st |-> "ok", path |-> "", pre_ids |-> {}, n |-> 0]
NoServer ==
    /\ pc = <<>>
    /\ req = <<>>
    /\ resp = <<>>
    /\ mutex = [holder |-> 0, poisoned |-> FALSE]
    /\ to_delete = <<>>
\* no file is written or read through the codecs
NoCodec ==
    /\ files = <<>>
    /\ codec_hist = <<>>
\* the chunker is not used
NoChunker ==
    /\ source_files = <<>>
    /\ chunks = <<>>
    /\ batches = <<>>
\* no connection is modelled
NoConn ==
    /\ stream = <<>>
    /\ client = <<>>
\* reblock does not run; the directory file is there
NoReblock ==
    /\ temp_dir = <<>>
    /\ directory_exists = TRUE
    /\ reblock = <<>>
\* embed_bulk does not run
NoEmbed ==
    /\ channel = <<>>
    /\ thread_pool = <<>>
    /\ bulk = <<>>
NoAux == NoCodec /\ NoChunker /\ NoConn /\ NoReblock /\ NoEmbed

\* the cache's fields as one record, for the operators above
CacheRec ==
    [heap |-> lru_heap, front |-> lru_front, back |-> lru_back, len |-> lru_len,
     node_map |-> node_map, embeddings |-> embeddings, dirty |-> dirty_embeddings,
     directory |-> cache_directory, max_size |-> max_size,
     status |-> cache_hist.status, mru |-> cache_hist.mru,
     lruViolated |-> cache_hist.lruViolated, loads |-> cache_hist.loads]

SetCache(c, result) ==
    /\ lru_heap' = c.heap
    /\ lru_front' = c.front
    /\ lru_back' = c.back
    /\ lru_len' = c.len
    /\ node_map' = c.node_map
    /\ embeddings' = c.embeddings
    /\ dirty_embeddings' = c.dirty
    /\ cache_directory' = c.directory
    /\ max_size' = c.max_size
    /\ cache_hist' = [status |-> c.status, mru |-> c.mru, lruViolated |-> c.lruViolated,
                      loads |-> c.loads, lastResult |-> result]

\* the ids a caller asks the cache for: those of the directory, those
\* update_file_embeddings hands out, and one no record ever carries
CacheIds == 0..(3 * MaxCacheChunks)

\* the stores the cache is constructed over
CacheCounts == {k \in [Paths -> 0..MaxCacheChunks] : k["c d"] = 0 /\ k["a"] + k["b"] > 0}

InitCache ==
    \E counts \in CacheCounts, size \in BLOCK_SIZE..(BLOCK_SIZE + MaxCacheExtra),
       upd \in {"none", "a", "b"}, c \in 0..MaxCacheChunks :
        LET embs == EmbeddedLedger(counts, 0)
            dir == SyncIndexDirectory(embs)
            blks == SyncIndexBlocks(embs)
            cache == NewCache(dir, size)
        IN /\ upd = "none" => c = 0
           /\ upd # "none" => upd \in DOMAIN GetDirectory(dir).file_map
           /\ directory = dir
           /\ blocks = IF upd = "none" THEN blks ELSE UpdateFileBlocks(blks, dir, upd, c, 1)
           /\ lru_heap = cache.heap
           /\ lru_front = cache.front
           /\ lru_back = cache.back
           /\ lru_len = cache.len
           /\ node_map = cache.node_map
           /\ embeddings = cache.embeddings
           /\ dirty_embeddings = cache.dirty
           /\ cache_directory = cache.directory
           /\ max_size = cache.max_size
           /\ cache_hist = [status |-> "ok", mru |-> <<>>, lruViolated |-> FALSE,
                            loads |-> cache.loads, lastResult |-> "none"]
           /\ NoIndex
           /\ NoServer
           /\ NoAux

\* a get whose block load makes room before it looks the id up
GetCallEvictFirst(c, blks, embedding_id) ==
    LET needsLoad == embedding_id \notin DOMAIN c.embeddings \/ embedding_id \in c.dirty
    IN IF needsLoad /\ LoadFails(c, blks, embedding_id)
       THEN [c |-> Collect(Evict(c)),
             result |-> IF embedding_id \notin DOMAIN c.directory THEN "notfound" ELSE "ioerr"]
       ELSE LET c2 == GetLoaded(c, blks, embedding_id)
            IN [c |-> c2, result |-> c2.status]

\* EmbeddingCache::get(embedding_id), the whole call: the cache it leaves and
\* what it returns ("ok", "notfound", "ioerr", or the way it died)
GetCall(c, blks, embedding_id) ==
    LET needsLoad == embedding_id \notin DOMAIN c.embeddings \/ embedding_id \in c.dirty
    IN IF needsLoad /\ LoadFails(c, blks, embedding_id)
       THEN [c |-> c,
             result |-> IF embedding_id \notin DOMAIN c.directory THEN "notfound" ELSE "ioerr"]
       ELSE LET c2 == GetLoaded(c, blks, embedding_id)
            IN [c |-> c2, result |-> c2.status]

Get(embedding_id) ==
    /\ cache_hist.status = "ok"
    /\ LET r == GetCall(CacheRec, blocks, embedding_id)
       IN /\ r.result # "nomem"
          /\ SetCache(r.c, r.result)
    /\ UNCHANGED <<storeVars, indexVars, serverVars, auxVars>>

NextCache == \E id \in CacheIds : Get(id)

SpecCache == InitCache /\ [][NextCache]_vars

----------------------------------------------------------------------------
(* Claims about the embedding cache *)

BlocksFit == \A b \in DOMAIN blocks : Len(blocks[b]) <= max_size
Held == Cardinality(DOMAIN embeddings)

\* C4: when every block holds at most max_size records, the cache never
\* holds more than max_size embedding records
C4_SizeBound == BlocksFit => Held <= max_size

\* C5: every eviction drops the least recently used of the cached ids: no id
\* is evicted while an id used less recently than it stays cached
C5_LruOrder == ~cache_hist.lruViolated

\* the records of the blocks read so far
LoadedRecords(loaded) ==
    IF loaded = {} THEN 0
    ELSE LET b == MinOf(loaded)
             rest == loaded \ {b}
             RECURSIVE Sum(_)
             Sum(S) == IF S = {} THEN 0
                       ELSE LET x == MinOf(S) IN Len(blocks[x]) + Sum(S \ {x})
         IN Sum(loaded)

WorkingSetFits ==
    LoadedRecords({b \in DOMAIN cache_hist.loads : cache_hist.loads[b] > 0}) <= max_size

\* C6: while the blocks of the ids asked for together hold at most max_size
\* records, no block is read from disk a second time
C6_NoReload ==
    WorkingSetFits => \A b \in DOMAIN cache_hist.loads : cache_hist.loads[b] <= 1

C6_Witness ==
    /\ WorkingSetFits
    /\ cache_hist.lastResult = "ok"
    /\ Cardinality({b \in DOMAIN cache_hist.loads : cache_hist.loads[b] = 1}) >= 2
    /\ lru_len >= 3

\* what a get of id does in the current state
NotFoundUntouched(id) ==
    LET r == GetCall(CacheRec, blocks, id)
    IN r.result = "notfound" /\ r.c = CacheRec

----------------------------------------------------------------------------
(* The HNSW index (hnsw.rs).  A layer is a Graph: node id -> its edges, a   *)
(* sequence of <<neighbour id, distance>> kept sorted by distance.          *)
(* Embeddings are unit vectors in a plane, vec * 60 degrees from the axis;  *)
(* a distance is 10 * (1 - dot).                                            *)

DistTable == <<0, 5, 15, 20, 15, 5>>
\* 1.0 - dot(a, b)
Dist(a, b) == DistTable[((IF a < b THEN b - a ELSE a - b) % Len(DistTable)) + 1]

\* the record cache.get(id) returns while the records read fit the cache
\* (CACHE_SIZE is 20 blocks): Ok(record), Err (id not in the directory, block
\* file missing) or the unwrap that fails when the block does not hold the id
CacheGet(blks, id_map, id) ==
    IF id \notin DOMAIN id_map THEN [st |-> "err"]
    ELSE IF id_map[id] \notin DOMAIN blks THEN [st |-> "err"]
    ELSE LET hit == SelectSeq(blks[id_map[id]], LAMBDA e : e.id = id)
         IN IF Len(hit) = 0 THEN [st |-> "panic"] ELSE [st |-> "ok", e |-> hit[Len(hit)]]

\* usize::ilog2 for n > 0
RECURSIVE ILog2(_)
ILog2(n) == IF n <= 1 THEN 0 ELSE 1 + ILog2(n \div 2)

\* a push that leaves the list as it falls
PushUnsorted(edges, value, d) == Append(edges, <<value, d>>)

\* edges.push((value, d)) followed by the stable sort_by on the distance
SortedPush(edges, value, d) ==
    SelectSeq(edges, LAMBDA x : x[2] <= d) \o <<(<<value, d>>)>>
    \o SelectSeq(edges, LAMBDA x : x[2] > d)

\* layer.entry(key).or_insert_with(Vec::new), then the push unless already held
AddEdge(layer, key, value, d) ==
    LET edges == IF key \in DOMAIN layer THEN layer[key] ELSE <<>>
    IN Insert(layer, key,
              IF <<value, d>> \in Range(edges) THEN edges ELSE SortedPush(edges, value, d))

\* layer.keys().take(m): a HashMap iterates in an arbitrary order; the model
\* draws the order from these two
KeyOrders == {"asc", "desc"}
Reverse(s) == [i \in 1..Len(s) |-> s[Len(s) + 1 - i]]
KeysTake(layer, m, ord) ==
    LET keys == IF ord = "asc" THEN Ascending(DOMAIN layer)
                ELSE Reverse(Ascending(DOMAIN layer))
    IN SubSeq(keys, 1, Min(m, Len(keys)))

\* an insertion that adds the edge from the new node only
RECURSIVE ConnectOneWay(_, _, _, _, _, _)
ConnectOneWay(layer, id, vec, keys, blks, id_map) ==
    IF keys = <<>> THEN layer
    ELSE ConnectOneWay(AddEdge(layer, id, Head(keys),
                               Dist(vec, CacheGet(blks, id_map, Head(keys)).e.vec)),
                       id, vec, Tail(keys), blks, id_map)

\* the updates of one insertion: an edge each way between the new node and
\* every key taken
RECURSIVE Connect(_, _, _, _, _, _)
Connect(layer, id, vec, keys, blks, id_map) ==
    IF keys = <<>> THEN layer
    ELSE LET node == Head(keys)
             d == Dist(vec, CacheGet(blks, id_map, node).e.vec)
         IN Connect(AddEdge(AddEdge(layer, node, id, d), id, node, d),
                    id, vec, Tail(keys), blks, id_map)

\* HNSW::new, inserting e into one layer
InsertIntoLayer(layer, e, m, ord, blks, id_map) ==
    IF DOMAIN layer = {} THEN Insert(layer, e.id, <<>>)
    ELSE Connect(layer, e.id, e.vec, KeysTake(layer, m, ord), blks, id_map)

\* HNSW::new, for k in j..l: layers k..l of ls (1-based here) take e
RECURSIVE InsertFrom(_, _, _, _, _, _, _)
InsertFrom(ls, k, e, m, ord, blks, id_map) ==
    IF k > Len(ls) THEN ls
    ELSE InsertFrom([ls EXCEPT ![k] = InsertIntoLayer(ls[k], e, m, ord, blks, id_map)],
                    k + 1, e, m, ord, blks, id_map)

\* HNSW::new draws prob once per node and inserts at every j with
\* prob < thresholds[j].  The thresholds grow with j, so the j that pass are
\* band..l-1 for a band in 0..l, band l leaving the node an orphan.  The model
\* draws the bands of a build from these profiles.
DrawProfiles == {"spread", "single", "flat", "orphan", "orphans", "rooted"}
Band(profile, i, n, l) ==
    CASE profile = "spread" -> i % l
      [] profile = "single" -> IF i = 0 THEN 0 ELSE l - 1
      [] profile = "flat" -> l - 1
      [] profile = "orphan" -> IF i = n - 1 THEN l ELSE i % l
      [] profile = "orphans" -> l
      [] OTHER -> IF i = 0 THEN l - 1 ELSE l

\* an insertion into the highest layer drawn and no other
InsertTopOnly(ls, j, band, e, m, ord, blks, id_map) ==
    IF j <= band THEN ls
    ELSE [ls EXCEPT ![band + 1] = InsertIntoLayer(@, e, m, ord, blks, id_map)]

\* for j in (0..l).rev(): each j that passes inserts e into layers j..l
RECURSIVE InsertPasses(_, _, _, _, _, _, _, _)
InsertPasses(ls, j, band, e, m, ord, blks, id_map) ==
    IF j <= band THEN ls
    ELSE InsertPasses(InsertFrom(ls, j, e, m, ord, blks, id_map),
                      j - 1, band, e, m, ord, blks, id_map)

\* HNSW::new, one turn of the loop over the embeddings: e[i] drew band
BuildNode(g, i, band, m, ord, blks, id_map) ==
    IF band >= Len(g.layers) THEN g
    ELSE With(CacheGet(blks, id_map, i), LAMBDA r :
            IF r.st # "ok" THEN [g EXCEPT !.st = r.st, !.orphans = @ \ {i}]
            ELSE [g EXCEPT !.layers = InsertPasses(@, Len(g.layers), band, r.e, m, ord,
                                                   blks, id_map),
                           !.orphans = @ \ {i}])

\* HNSW::new, the loop over the embeddings e[i], i in 0..n
RECURSIVE BuildLoop(_, _, _, _, _, _, _, _)
BuildLoop(g, i, n, profile, m, ord, blks, id_map) ==
    IF i = n \/ g.st # "ok" THEN g
    ELSE BuildLoop(BuildNode(g, i, Band(profile, i, n, Len(g.layers)), m, ord, blks, id_map),
                   i + 1, n, profile, m, ord, blks, id_map)

\* HNSW::new, the loop that ties the orphans to keys of the bottom layer;
\* i % (orphans.len() / 10) divides by zero for fewer than ten orphans
RECURSIVE ConnectOrphans(_, _, _, _, _, _)
ConnectOrphans(g, orphans, m, ord, blks, id_map) ==
    IF orphans = <<>> \/ g.st # "ok" THEN g
    ELSE LET l == Len(g.layers)
             r == CacheGet(blks, id_map, Head(orphans))
         IN IF r.st # "ok" THEN [g EXCEPT !.st = r.st]
            ELSE ConnectOrphans(
                    [g EXCEPT !.layers[l] =
                        Connect(@, r.e.id, r.e.vec, KeysTake(@, m, ord), blks, id_map)],
                    Tail(orphans), m, ord, blks, id_map)

\* HNSW::new, after the first loop: fewer than ten orphans divide by zero,
\* the others are tied to the bottom layer
BuildOrphans(g, orphans, m, ord, blks, id_map) ==
    IF g.st # "ok" THEN g
    ELSE IF Len(orphans) > 0 /\ Len(orphans) \div 10 = 0 THEN [g EXCEPT !.st = "panic"]
    ELSE ConnectOrphans(g, orphans, m, ord, blks, id_map)

\* HNSW::new with n = directory.len() and m = l = n.ilog2()
BuildGraph(n, m, profile, ord, blks, id_map) ==
    With(BuildLoop([st |-> "ok", layers |-> [j \in 1..m |-> EmptyMap],
                    orphans |-> 0..(n - 1)],
                   0, n, profile, m, ord, blks, id_map),
         LAMBDA g1 :
            With(BuildOrphans(g1, Ascending(g1.orphans), m, ord, blks, id_map),
                 LAMBDA g2 : [st |-> g2.st, size |-> n, layers |-> g2.layers]))

\* HNSW::new(true): [st, size, layers]; st is "ok", "err" or "panic".
\* i % (n / 10) divides by zero for fewer than ten embeddings.
HNSWNew(blks, dir, profile, ord) ==
    IF ~DirectoryParses(dir) THEN [st |-> "panic", size |-> 0, layers |-> <<>>]
    ELSE With(GetDirectory(dir).id_map, LAMBDA id_map :
            IF Cardinality(DOMAIN id_map) \div 10 = 0
            THEN [st |-> "panic", size |-> 0, layers |-> <<>>]
            ELSE BuildGraph(Cardinality(DOMAIN id_map), ILog2(Cardinality(DOMAIN id_map)),
                            profile, ord, blks, id_map))

\* remove_node(id): the id leaves every layer's keys and every edge list
RemoveNode(ls, id) ==
    [j \in 1..Len(ls) |->
        [key \in DOMAIN ls[j] \ {id} |-> SelectSeq(ls[j][key], LAMBDA x : x[1] # id)]]

\* the ids the graph holds, as nodes or as neighbours
GraphIds(ls) ==
    UNION {DOMAIN ls[j] \cup UNION {{x[1] : x \in Range(ls[j][key])} : key \in DOMAIN ls[j]} :
           j \in 1..Len(ls)}

----------------------------------------------------------------------------
(* HNSW::query (hnsw.rs:254-340).  The search state q holds the locals of   *)
(* the function: stack, visited, blacklist, top_k, count, and st, which is  *)
(* "ok" while the loops run, "return" after the early return at count >= ef *)
(* and "panic" once an unwrap, an index or the ef check has failed.         *)

\* Filter::compare
Compare(filter, meta) ==
    IF filter.comparator = "eq" THEN meta = filter.value ELSE meta # filter.value

\* a filter set that lets every record pass
FilterPassAll(filters, e) == TRUE

\* filter_pass: every filter is applied to every tag of the record
FilterPass(filters, e) == \A f \in filters : \A meta \in e.meta : Compare(f, meta)

\* sort_by on the distance, a stable sort
RECURSIVE SortByDistance(_)
SortByDistance(s) ==
    IF s = <<>> THEN <<>>
    ELSE SortedPush(SortByDistance(SubSeq(s, 1, Len(s) - 1)), s[Len(s)][1], s[Len(s)][2])

\* the filter_map over the edges of current: the neighbours that pass, and
\* the blacklist it extends on the way
RECURSIVE FilterNeighbors(_, _, _, _, _, _, _)
FilterNeighbors(q, edges, out, query, size, blks, id_map) ==
    IF edges = <<>> \/ q.st # "ok" THEN [q |-> q, neighbors |-> out]
    ELSE With(Head(edges)[1], LAMBDA n :
         With(CacheGet(blks, id_map, n), LAMBDA r :
            IF n >= size \/ (n \notin q.blacklist /\ r.st # "ok")
            THEN [q |-> [q EXCEPT !.st = "panic"], neighbors |-> out]
            ELSE IF n \in q.blacklist
            THEN FilterNeighbors(q, Tail(edges), out, query, size, blks, id_map)
            ELSE IF n \notin q.visited /\ FilterPass(query.filters, r.e)
            THEN FilterNeighbors(q, Tail(edges),
                                 Append(out, <<n, Dist(query.vec, r.e.vec)>>),
                                 query, size, blks, id_map)
            ELSE FilterNeighbors([q EXCEPT !.blacklist = @ \cup {n}], Tail(edges), out,
                                 query, size, blks, id_map)))

\* a neighbour taken without top_k being cut back
TakeNeighborUncut(q, neighbor, k, ef) ==
    With(IF neighbor[1] \notin q.visited /\ neighbor[1] \notin q.blacklist /\ q.count < ef
         THEN [q EXCEPT !.top_k = SortByDistance(Append(@, neighbor)),
                        !.stack = Append(@, neighbor[1]),
                        !.visited = @ \cup {neighbor[1]},
                        !.count = @ + 1]
         ELSE q,
         LAMBDA q1 : IF q1.count >= ef THEN [q1 EXCEPT !.st = "return"] ELSE q1)

\* one neighbour of the loop below: taken unless visited, blacklisted or
\* past ef; top_k is cut back to the k closest
TakeNeighbor(q, neighbor, k, ef) ==
    With(IF neighbor[1] \notin q.visited /\ neighbor[1] \notin q.blacklist /\ q.count < ef
         THEN [q EXCEPT !.top_k = Append(@, neighbor),
                        !.stack = Append(@, neighbor[1]),
                        !.visited = @ \cup {neighbor[1]},
                        !.count = @ + 1]
         ELSE q,
         LAMBDA q1 :
            With(IF Len(q1.top_k) > k
                 THEN [q1 EXCEPT !.top_k = SubSeq(SortByDistance(@), 1, k)]
                 ELSE q1,
                 LAMBDA q2 : IF q2.count >= ef THEN [q2 EXCEPT !.st = "return"] ELSE q2))

\* the loop over the sorted neighbours
RECURSIVE TakeNeighbors(_, _, _, _)
TakeNeighbors(q, neighbors, k, ef) ==
    IF neighbors = <<>> \/ q.st # "ok" THEN q
    ELSE TakeNeighbors(TakeNeighbor(q, Head(neighbors), k, ef), Tail(neighbors), k, ef)

\* while !stack.is_empty(), within one layer
RECURSIVE WalkLayer(_, _, _, _, _, _, _, _)
WalkLayer(q, layer, query, k, ef, size, blks, id_map) ==
    IF q.stack = <<>> \/ q.st # "ok" THEN q
    ELSE IF q.stack[Len(q.stack)] \notin DOMAIN layer THEN [q EXCEPT !.st = "panic"]
    ELSE With(FilterNeighbors([q EXCEPT !.stack = SubSeq(@, 1, Len(@) - 1)],
                              layer[q.stack[Len(q.stack)]], <<>>, query, size, blks, id_map),
              LAMBDA f :
                 WalkLayer(TakeNeighbors(f.q, SortByDistance(f.neighbors), k, ef),
                           layer, query, k, ef, size, blks, id_map))

\* for layer in self.layers.iter(): walk it from current, then move current
\* to the closest result so far
RECURSIVE WalkLayers(_, _, _, _, _, _, _, _, _, _)
WalkLayers(q, ls, j, current, query, k, ef, size, blks, id_map) ==
    IF j > Len(ls) \/ q.st # "ok" THEN q
    ELSE With(WalkLayer([q EXCEPT !.stack = <<current>>], ls[j], query, k, ef,
                        size, blks, id_map),
              LAMBDA q1 :
                 IF q1.st # "ok" THEN q1
                 ELSE IF q1.top_k = <<>> THEN [q1 EXCEPT !.st = "panic"]
                 ELSE With(SortByDistance(q1.top_k), LAMBDA sorted :
                         WalkLayers([q1 EXCEPT !.top_k = sorted], ls, j + 1, sorted[1][1],
                                    query, k, ef, size, blks, id_map)))

\* the end of HNSW::query: every node of top_k is fetched through the cache
QueryResults(top, blks, id_map) ==
    With([i \in 1..Len(top) |-> CacheGet(blks, id_map, top[i][1])], LAMBDA found :
        IF \E i \in 1..Len(top) : found[i].st # "ok"
        THEN [st |-> "panic", results |-> <<>>]
        ELSE [st |-> "ok", results |-> [i \in 1..Len(top) |-> <<found[i].e, top[i][2]>>]])

\* HNSW::query: [st |-> "ok", results |-> <<record, distance>> pairs] or
\* [st |-> "panic"].  ord is the order in which the top layer's keys iterate.
HNSWQuery(ls, size, blks, id_map, query, k, ef, ord) ==
    IF ef < k \/ Len(ls) = 0 THEN [st |-> "panic", results |-> <<>>]
    ELSE IF DOMAIN ls[1] = {} THEN [st |-> "panic", results |-> <<>>]
    ELSE With(WalkLayers([st |-> "ok", stack |-> <<>>, visited |-> {}, blacklist |-> {},
                          top_k |-> <<>>, count |-> 0],
                         ls, 1, KeysTake(ls[1], 1, ord)[1], query, k, ef, size, blks, id_map),
              LAMBDA q :
                 IF q.st = "panic" THEN [st |-> "panic", results |-> <<>>]
                 ELSE With(QueryResults(IF q.st = "return" THEN q.top_k
                                        ELSE SortByDistance(q.top_k), blks, id_map),
                           LAMBDA r : [st |-> r.st, results |-> r.results,
                                       early |-> q.st = "return"]))

----------------------------------------------------------------------------
(* SpecStore: the command line's full ingest (-f), index build (-r) and     *)
(* reblock (-b), and the server's update_file_embeddings, run one after the *)
(* other on one data directory.  The index the server holds and the index   *)
(* file are one graph here: the server loads the file, and serializes after *)
(* every update.                                                            *)

\* the files get_stale_files finds changed since they were embedded
StaleSets == {{}, {"b"}, {"a", "c d"}}

\* the chunk counts of the ledger's files at a full ingest
StoreCounts == [Paths -> MinChunks..(MinChunks + 1)]

\* reblock: the depth-first walk of the bottom layer, as the sequence of
\* nodes in the order they are visited
RECURSIVE ReblockOrder(_, _, _)
ReblockOrder(stack, visited, full_graph) ==
    IF stack = <<>> THEN visited
    ELSE IF stack[Len(stack)] \in Range(visited)
    THEN ReblockOrder(SubSeq(stack, 1, Len(stack) - 1), visited, full_graph)
    ELSE With(SelectSeq(SortByDistance(full_graph[stack[Len(stack)]]),
                        LAMBDA x : x[1] \notin Range(visited) /\ x[1] # stack[Len(stack)]),
              LAMBDA unvisited :
                 ReblockOrder(SubSeq(stack, 1, Len(stack) - 1)
                                  \o [i \in 1..Len(unvisited) |-> unvisited[i][1]],
                              Append(visited, stack[Len(stack)]), full_graph))

\* reblock: the blocks and the directory written from the records got, in
\* visiting order, each with the ledger's tags
ReblockWrite(got, blks, dir) ==
    IF \E i \in 1..Len(got) : got[i].st # "ok"
    THEN [st |-> "panic", blocks |-> blks, directory |-> dir]
    ELSE [st |-> "ok",
          blocks |-> [b \in 0..(((Len(got) + BLOCK_SIZE - 1) \div BLOCK_SIZE) - 1) |->
                         [i \in 1..(Min((b + 1) * BLOCK_SIZE, Len(got)) - b * BLOCK_SIZE) |->
                             [got[b * BLOCK_SIZE + i].e EXCEPT
                                 !.meta = LedgerMeta(got[b * BLOCK_SIZE + i].e.filepath)]]],
          directory |-> [i \in 1..Len(got) |->
                            [id |-> got[i].e.id, filepath |-> got[i].e.filepath,
                             block |-> (i - 1) \div BLOCK_SIZE]]]

\* reblock: [st, blocks, directory] from the index, the blocks and the ledger;
\* visited.len() % (full_graph.len() / 10) divides by zero under ten nodes
ReblockResult(ls, blks, dir, ord) ==
    IF DOMAIN ls[Len(ls)] = {} \/ Cardinality(DOMAIN ls[Len(ls)]) \div 10 = 0
    THEN [st |-> "panic", blocks |-> blks, directory |-> dir]
    ELSE With(ReblockOrder(KeysTake(ls[Len(ls)], 1, ord), <<>>, ls[Len(ls)]), LAMBDA order :
         With(GetDirectory(dir).id_map, LAMBDA id_map :
         With([i \in 1..Len(order) |-> CacheGet(blks, id_map, order[i])], LAMBDA got :
            ReblockWrite(got, blks, dir))))

\* for node in to_delete { index.remove_node(node) }
RECURSIVE RemoveNodes(_, _)
RemoveNodes(ls, ids) ==
    IF ids = <<>> THEN ls ELSE RemoveNodes(RemoveNode(ls, Head(ids)), Tail(ids))

StoreOp(op, st, path, pre_ids) ==
    store_hist' = [op |-> op, st |-> st, path |-> path, pre_ids |-> pre_ids,
                   n |-> store_hist.n + 1]

InitStore ==
    /\ \E counts \in StoreCounts :
          LET embs == EmbeddedLedger(counts, 0)
          IN /\ blocks = SyncIndexBlocks(embs)
             /\ directory = SyncIndexDirectory(embs)
    /\ NoIndex
    /\ NoServer
    /\ lru_heap = <<>>
    /\ lru_front = NoNode
    /\ lru_back = NoNode
    /\ lru_len = 0
    /\ node_map = EmptyMap
    /\ embeddings = EmptyMap
    /\ dirty_embeddings = {}
    /\ cache_directory = EmptyMap
    /\ max_size = 0
    /\ cache_hist = [status |-> "ok"]
    /\ NoAux

\* sync_index(true)
SyncIndex(counts, seed) ==
    /\ store_hist.n < MaxStoreOps
    /\ LET embs == EmbeddedLedger(counts, seed)
       IN /\ blocks' = SyncIndexBlocks(embs)
          /\ directory' = SyncIndexDirectory(embs)
    /\ StoreOp("sync_index", "ok", "", {})
    /\ UNCHANGED <<index_size, layers, cacheVars, auxVars, serverVars>>

\* sync_index(false): get_stale_files gives the sources, embed_bulk their
\* embeddings; the block files are removed, the new ones and the directory
\* written from these embeddings
SyncIndexStale(stale, seed) ==
    /\ store_hist.n < MaxStoreOps
    /\ \E embs \in {SelectSeq(EmbeddedLedger([p \in Paths |-> MinChunks], seed),
                               LAMBDA e : e.filepath \in stale)} :
          /\ blocks' = SyncIndexBlocks(embs)
          /\ directory' = SyncIndexDirectory(embs)
    /\ store_hist' = [op |-> "sync_stale", st |-> "ok", path |-> "", pre_ids |-> {},
                      n |-> store_hist.n + 1, stale |-> stale]
    /\ UNCHANGED <<index_size, layers, cacheVars, auxVars, serverVars>>

\* cli -r: HNSW::new(true), then serialize
BuildIndex(profile, ord) ==
    /\ store_hist.n < MaxStoreOps
    /\ \E g \in {HNSWNew(blocks, directory, profile, ord)} :
          /\ index_size' = IF g.st = "ok" THEN g.size ELSE index_size
          /\ layers' = IF g.st = "ok" THEN g.layers ELSE layers
          /\ StoreOp("build", g.st, "", {})
    /\ UNCHANGED <<storeVars, cacheVars, auxVars, serverVars>>

\* update_file_embeddings(filepath, index), embed_bulk returning c chunks
UpdateFileEmbeddings(filepath, c, seed) ==
    /\ store_hist.n < MaxStoreOps
    /\ Len(layers) > 0
    /\ LET d == GetDirectory(directory)
       IN IF filepath \notin DOMAIN d.file_map
          THEN /\ StoreOp("update", IF DirectoryParses(directory) THEN "uncatalogued"
                                   ELSE "panic", filepath, DOMAIN d.id_map)
               /\ UNCHANGED <<blocks, layers>>
          ELSE IF d.file_map[filepath] \notin DOMAIN blocks
          THEN /\ StoreOp("update", "err", filepath, DOMAIN d.id_map)
               /\ UNCHANGED <<blocks, layers>>
          ELSE /\ blocks' = UpdateFileBlocks(blocks, directory, filepath, c, seed)
               /\ layers' = RemoveNodes(layers, ToDelete(blocks[d.file_map[filepath]], filepath))
               /\ StoreOp("update", "ok", filepath, DOMAIN d.id_map)
    /\ UNCHANGED <<directory, index_size, cacheVars, auxVars, serverVars>>

\* reblock()
Reblock(ord) ==
    /\ store_hist.n < MaxStoreOps
    /\ Len(layers) > 0
    /\ \E r \in {ReblockResult(layers, blocks, directory, ord)} :
          /\ blocks' = r.blocks
          /\ directory' = r.directory
          /\ StoreOp("reblock", r.st, "", {})
    /\ UNCHANGED <<index_size, layers, cacheVars, auxVars, serverVars>>

NextStore ==
    \/ \E counts \in StoreCounts : SyncIndex(counts, 0)
    \/ \E stale \in StaleSets : SyncIndexStale(stale, 1)
    \/ \E profile \in DrawProfiles, ord \in KeyOrders : BuildIndex(profile, ord)
    \/ \E filepath \in Paths, c \in 0..MaxNewChunks : UpdateFileEmbeddings(filepath, c, 1)
    \/ \E ord \in KeyOrders : Reblock(ord)

SpecStore == InitStore /\ [][NextStore]_vars

----------------------------------------------------------------------------
(* Claims about the data directory *)

StoredRecords == UNION {Range(blocks[b]) : b \in DOMAIN blocks}

\* C8: every embedding id that occurs in the graph, as a node or as a
\* neighbour in any layer, is present in the directory's id_map
C8_GraphIdsCatalogued == GraphIds(layers) \subseteq DOMAIN GetDirectory(directory).id_map

\* C9: after update_file(p) succeeds, no stored record of p has an id that
\* the directory held before the update
C9_NoOldIdsAfterUpdate ==
    (store_hist.op = "update" /\ store_hist.st \in {"ok", "uncatalogued"}) =>
        \A e \in StoredRecords :
            e.filepath = store_hist.path => e.id \notin store_hist.pre_ids

\* C10: no two records stored in the block files share an embedding id
C10_UniqueIds ==
    /\ \A e1, e2 \in StoredRecords : e1.id = e2.id => e1 = e2
    /\ \A b \in DOMAIN blocks : \A i, j \in 1..Len(blocks[b]) :
          blocks[b][i].id = blocks[b][j].id => i = j

----------------------------------------------------------------------------
(* SpecServer: the server has loaded the index and spawns one thread per    *)
(* connection (bin/server.rs main).  A handler reads its request and embeds *)
(* the query before it takes the mutex around the index; HNSW::query runs   *)
(* under the mutex.  The dispatch of edit requests is not in this source    *)
(* tree: following spec section 4.7 and lib.rs:20-21, an edit handler takes *)
(* the same mutex and runs update_file_embeddings under it, whose steps     *)
(* (block rewrite, one remove_node per old id, serialize) are separate      *)
(* actions here.  A thread that panics while it holds the guard poisons the *)
(* mutex.                                                                   *)

Workers == 1..NumWorkers
FilterSets == {{}, {[comparator |-> "eq", value |-> "zig"]}}
Queries == [kind : {"query"}, vec : {1}, filters : FilterSets, k : {QueryK, EF + 1}]
Edits == [kind : {"edit"}, filepath : {"a", "c d"}, c : {MaxNewChunks}]
NoRequest == [kind |-> "none"]
NoResponse == [st |-> "none", results |-> <<>>]
Closed == [st |-> "closed", results |-> <<>>]

InitServer ==
    /\ blocks = SyncIndexBlocks(EmbeddedLedger([p \in Paths |-> MinChunks + 1], 0))
    /\ directory = SyncIndexDirectory(EmbeddedLedger([p \in Paths |-> MinChunks + 1], 0))
    /\ \E profile \in DrawProfiles, ord \in KeyOrders :
          \E g \in {HNSWNew(blocks, directory, profile, ord)} :
             /\ g.st = "ok"
             /\ index_size = g.size
             /\ layers = g.layers
    /\ store_hist = [op |-> "build", st |-> "ok", path |-> "", pre_ids |-> {}, n |-> 0]
    /\ pc = [w \in Workers |-> "idle"]
    /\ req = [w \in Workers |-> NoRequest]
    /\ resp = [w \in Workers |-> NoResponse]
    /\ mutex = [holder |-> 0, poisoned |-> FALSE]
    /\ to_delete = [ids |-> <<>>, done |-> 0]
    /\ lru_heap = <<>>
    /\ lru_front = NoNode
    /\ lru_back = NoNode
    /\ lru_len = 0
    /\ node_map = EmptyMap
    /\ embeddings = EmptyMap
    /\ dirty_embeddings = {}
    /\ cache_directory = EmptyMap
    /\ max_size = 0
    /\ cache_hist = [status |-> "ok"]
    /\ NoAux

\* handle_client up to the lock: the request is read and parsed, the query
\* embedded, the filters parsed
Receive(w, r) ==
    /\ pc[w] = "idle"
    /\ pc' = [pc EXCEPT ![w] = "parsed"]
    /\ req' = [req EXCEPT ![w] = r]
    /\ UNCHANGED <<storeVars, cacheVars, auxVars, indexVars, resp, mutex, to_delete>>

\* an always-granting lock
MutexFreeAlways(m) == TRUE

\* Mutex::lock blocks until no thread holds the guard
MutexFree(m) == m.holder = 0

\* index.lock().unwrap(): a poisoned mutex makes lock() return Err, and the
\* unwrap ends the thread
Lock(w) ==
    /\ pc[w] = "parsed"
    /\ MutexFree(mutex)
    /\ IF mutex.poisoned
       THEN /\ pc' = [pc EXCEPT ![w] = "died_lock"]
            /\ resp' = [resp EXCEPT ![w] = Closed]
            /\ UNCHANGED mutex
       ELSE /\ pc' = [pc EXCEPT ![w] = "locked"]
            /\ mutex' = [mutex EXCEPT !.holder = w]
            /\ UNCHANGED resp
    /\ UNCHANGED <<storeVars, cacheVars, auxVars, indexVars, req, to_delete>>

\* index.query(&query, message.k, 200) and the end of the guard's block
RunQuery(w, ord) ==
    /\ pc[w] = "locked"
    /\ req[w].kind = "query"
    /\ \E r \in {HNSWQuery(layers, index_size, blocks, GetDirectory(directory).id_map,
                             req[w], req[w].k, EF, ord)} :
          IF r.st = "panic"
          THEN /\ pc' = [pc EXCEPT ![w] = "died_query"]
               /\ resp' = [resp EXCEPT ![w] = Closed]
               /\ mutex' = [holder |-> 0, poisoned |-> TRUE]
          ELSE /\ pc' = [pc EXCEPT ![w] = "unlocked"]
               /\ resp' = [resp EXCEPT ![w] =
                             [st |-> "ok",
                              results |-> [i \in 1..Len(r.results) |-> r.results[i][1].id]]]
               /\ mutex' = [mutex EXCEPT !.holder = 0]
    /\ UNCHANGED <<storeVars, cacheVars, auxVars, indexVars, req, to_delete>>

\* update_file_embeddings up to block.to_file
EditRewrite(w) ==
    /\ pc[w] = "locked"
    /\ req[w].kind = "edit"
    /\ LET d == GetDirectory(directory)
           filepath == req[w].filepath
       IN IF filepath \notin DOMAIN d.file_map
          THEN /\ pc' = [pc EXCEPT ![w] = "unlocked"]
               /\ resp' = [resp EXCEPT ![w] = [st |-> "edited", results |-> <<>>]]
               /\ mutex' = [mutex EXCEPT !.holder = 0]
               /\ UNCHANGED <<blocks, to_delete>>
          ELSE /\ blocks' = UpdateFileBlocks(blocks, directory, filepath, req[w].c, 1)
               /\ to_delete' = [ids |-> ToDelete(blocks[d.file_map[filepath]], filepath),
                                done |-> 0]
               /\ pc' = [pc EXCEPT ![w] = "removing"]
               /\ UNCHANGED <<resp, mutex>>
    /\ UNCHANGED <<directory, cacheVars, auxVars, indexVars, req>>

\* one turn of for node in to_delete { index.remove_node(node) }
EditRemove(w) ==
    /\ pc[w] = "removing"
    /\ to_delete.done < Len(to_delete.ids)
    /\ layers' = RemoveNode(layers, to_delete.ids[to_delete.done + 1])
    /\ to_delete' = [to_delete EXCEPT !.done = @ + 1]
    /\ UNCHANGED <<storeVars, cacheVars, auxVars, index_size, store_hist, pc, req, resp, mutex>>

\* index.serialize, Ok(()), and the guard dropped
EditSerialize(w) ==
    /\ pc[w] = "removing"
    /\ to_delete.done = Len(to_delete.ids)
    /\ pc' = [pc EXCEPT ![w] = "unlocked"]
    /\ resp' = [resp EXCEPT ![w] = [st |-> "edited", results |-> <<>>]]
    /\ mutex' = [mutex EXCEPT !.holder = 0]
    /\ to_delete' = [ids |-> <<>>, done |-> 0]
    /\ UNCHANGED <<storeVars, cacheVars, auxVars, indexVars, req>>

\* the response is written to the stream
Respond(w) ==
    /\ pc[w] = "unlocked"
    /\ pc' = [pc EXCEPT ![w] = "done"]
    /\ UNCHANGED <<storeVars, cacheVars, auxVars, indexVars, req, resp, mutex, to_delete>>

NextServer ==
    \E w \in Workers :
        \/ \E r \in Queries \cup Edits : Receive(w, r)
        \/ Lock(w)
        \/ \E ord \in KeyOrders : RunQuery(w, ord)
        \/ EditRewrite(w)
        \/ EditRemove(w)
        \/ EditSerialize(w)
        \/ Respond(w)

SpecServer == InitServer /\ [][NextServer]_vars

----------------------------------------------------------------------------
(* Claims about the server *)

\* a handler is inside its index section from the lock to the guard's drop
InSection(w) == pc[w] \in {"locked", "removing"}

\* C1: at most one request handler is inside its index section at any time;
\* in particular no query is in its section while an edit has removed only
\* some of a file's old node ids
C1_MutualExclusion ==
    \A w1 \in Workers, w2 \in Workers : InSection(w1) /\ InSection(w2) => w1 = w2

C1_Witness ==
    \E w1 \in Workers, w2 \in Workers :
        /\ pc[w1] = "removing"
        /\ 0 < to_delete.done
        /\ to_delete.done < Len(to_delete.ids)
        /\ pc[w2] = "parsed"
        /\ req[w2].kind = "query"

\* C2: after a request has failed while it held the index lock, the lock is
\* still usable: no handler of a well-formed query (k no greater than ef)
\* ends at the lock without a response
C2_LockStaysUsable ==
    \A w \in Workers : (req[w].kind = "query" /\ req[w].k <= EF) => pc[w] # "died_lock"

\* C3: a query whose index lookup fails or finds no candidate is answered
\* with a response whose result list is empty
C3_FailedQueryAnswered ==
    \A w \in Workers : pc[w] = "died_query" => resp[w] = [st |-> "ok", results |-> <<>>]

----------------------------------------------------------------------------
(* SpecIndex: HNSW::new(true) over a freshly ingested store, one turn of its *)
(* loop at a time so that every sequence of layer draws is a behaviour,      *)
(* then HNSW::query and remove_node calls on the graph it built.  Here       *)
(* store_hist holds the locals of the running build, req the arguments of    *)
(* the last query call and resp what it returned.                            *)

\* the stores the index is built over: 9, 10 or 11 records
IndexCounts == {c \in StoreCounts : c["a"] = MinChunks /\ c["b"] <= c["c d"]}

\* prob < thresholds[j] holds for j from a band up to l - 1, the thresholds
\* growing with j: band 0 inserts at every j, band l - 1 at the bottom layer
\* only, band l leaves the node an orphan
Bands(l) == 0..l

\* the orphan loop computes i % (orphans.len() / 10): a build that has drawn
\* an orphan and more than n - 10 other nodes ends in that division by zero
\* whatever the later draws are
Doomed(i, orphans, n) ==
    /\ \E o \in orphans : o < i
    /\ Cardinality({x \in 0..(i - 1) : x \notin orphans}) > n - 10

\* the arguments of HNSW::query: the query embedding and its filters
IndexFilters ==
    {{}, {[comparator |-> "eq", value |-> "rust"]}, {[comparator |-> "ne", value |-> "rust"]}}
IndexQueries == [vec : {1}, filters : IndexFilters]
\* k and ef, ef either small or the server's
QueryArgs == {ke \in (0..QueryK) \X {QueryEf, EF} : ke[1] <= ke[2]}

\* the locals of HNSW::new while it runs
Building(i, orphans, ord, st) ==
    [op |-> "new", st |-> st, i |-> i, orphans |-> orphans, ord |-> ord, upper |-> 0,
     removed |-> 0]

InitIndex ==
    /\ \E counts \in IndexCounts :
          /\ blocks = SyncIndexBlocks(EmbeddedLedger(counts, 0))
          /\ directory = SyncIndexDirectory(EmbeddedLedger(counts, 0))
    /\ index_size = 0
    /\ layers = [j \in 1..ILog2(Len(directory)) |-> EmptyMap]
    /\ \E ord \in KeyOrders : store_hist = Building(0, 0..(Len(directory) - 1), ord, "building")
    /\ req = NoRequest
    /\ resp = NoResponse
    /\ pc = <<>>
    /\ mutex = [holder |-> 0, poisoned |-> FALSE]
    /\ to_delete = [ids |-> <<>>, done |-> 0]
    /\ lru_heap = <<>>
    /\ lru_front = NoNode
    /\ lru_back = NoNode
    /\ lru_len = 0
    /\ node_map = EmptyMap
    /\ embeddings = EmptyMap
    /\ dirty_embeddings = {}
    /\ cache_directory = EmptyMap
    /\ max_size = 0
    /\ cache_hist = [status |-> "ok"]
    /\ NoAux

\* one turn of for i in 0..n: i % (n / 10), the draw, the insertions
BuildStep(band) ==
    /\ store_hist.op = "new"
    /\ store_hist.st = "building"
    /\ store_hist.i < Len(directory)
    /\ ~Doomed(store_hist.i, store_hist.orphans, Len(directory))
    /\ band < Len(layers) - 1 => store_hist.upper < MaxUpper
    /\ IF Len(directory) \div 10 = 0
       THEN /\ store_hist' = [store_hist EXCEPT !.st = "panic"]
            /\ UNCHANGED layers
       ELSE \E id_map \in {GetDirectory(directory).id_map} :
            \E g \in {BuildNode([st |-> "ok", layers |-> layers, orphans |-> store_hist.orphans],
                                store_hist.i, band, Len(layers), store_hist.ord,
                                blocks, id_map)} :
               /\ layers' = g.layers
               /\ store_hist' = [store_hist EXCEPT
                                    !.st = IF g.st = "ok" THEN "building" ELSE g.st,
                                    !.i = @ + 1,
                                    !.upper = IF band < Len(layers) - 1 THEN @ + 1 ELSE @,
                                    !.orphans = g.orphans]
    /\ UNCHANGED <<storeVars, cacheVars, auxVars, index_size, serverVars>>

\* the turns left of a build that is bound for the division by zero of the
\* orphan loop, and that panic; the graph is a local of the build and is lost
BuildPanics ==
    /\ store_hist.op = "new"
    /\ store_hist.st = "building"
    /\ store_hist.i < Len(directory)
    /\ Doomed(store_hist.i, store_hist.orphans, Len(directory))
    /\ store_hist' = [store_hist EXCEPT !.st = "panic", !.i = Len(directory)]
    /\ UNCHANGED <<storeVars, cacheVars, auxVars, index_size, layers, serverVars>>

\* the orphans are tied to the bottom layer and Ok(Self { size: n, layers })
FinishBuild ==
    /\ store_hist.op = "new"
    /\ store_hist.st = "building"
    /\ store_hist.i = Len(directory)
    /\ \E id_map \in {GetDirectory(directory).id_map} :
       \E g \in {BuildOrphans([st |-> "ok", layers |-> layers, orphans |-> store_hist.orphans],
                              Ascending(store_hist.orphans), Len(layers), store_hist.ord,
                              blocks, id_map)} :
          /\ layers' = g.layers
          /\ index_size' = IF g.st = "ok" THEN Len(directory) ELSE index_size
          /\ store_hist' = [store_hist EXCEPT !.st = g.st]
    /\ UNCHANGED <<storeVars, cacheVars, auxVars, serverVars>>

\* index.query(&query, k, ef) on the graph as it stands, a call that leaves
\* the graph as it was
Query(query, k, ef, ord) ==
    /\ store_hist.op = "new"
    /\ store_hist.st = "ok"
    /\ req = NoRequest
    /\ req' = [query |-> query, k |-> k, ef |-> ef]
    /\ \E id_map \in {GetDirectory(directory).id_map} :
          resp' = HNSWQuery(layers, index_size, blocks, id_map, query, k, ef, ord)
    /\ UNCHANGED <<storeVars, cacheVars, auxVars, indexVars, pc, mutex, to_delete>>

\* index.remove_node(id)
RemoveNodeCall(id) ==
    /\ store_hist.op = "new"
    /\ store_hist.st = "ok"
    /\ store_hist.removed < MaxRemoved
    /\ layers' = RemoveNode(layers, id)
    /\ store_hist' = [store_hist EXCEPT !.removed = @ + 1]
    /\ req' = NoRequest
    /\ resp' = NoResponse
    /\ UNCHANGED <<storeVars, cacheVars, auxVars, index_size, pc, mutex, to_delete>>

NextIndex ==
    \/ \E band \in Bands(Len(layers)) : BuildStep(band)
    \/ BuildPanics
    \/ FinishBuild
    \/ \E query \in IndexQueries, ke \in QueryArgs, ord \in KeyOrders :
          Query(query, ke[1], ke[2], ord)
    \/ \E id \in RemoveIds : RemoveNodeCall(id)

SpecIndex == InitIndex /\ [][NextIndex]_vars

----------------------------------------------------------------------------
(* Claims about file updates and the directory, under SpecStore *)

\* ServerState::reindex: "{}" when update_file_embeddings returned Ok, an
\* error object when it returned Err
ReindexResponse(st) == IF st \in {"ok", "uncatalogued"} THEN "{}" ELSE "{error}"

\* get_directory: the (id, filepath, block) triples parsed from the lines
DirectoryLines(dir) ==
    {<<dir[k].id, Unspace(dir[k].filepath), dir[k].block>> : k \in 1..Len(dir)}

\* C11: after update_file(p) the graph holds a node for every new record of p
C11_NewRecordsInGraph ==
    (store_hist.op = "update" /\ store_hist.st = "ok") =>
        \A e \in Range(blocks[GetDirectory(directory).file_map[store_hist.path]]) :
            e.filepath = store_hist.path => e.id \in GraphIds(layers)

\* C12: reindex returns "{}" only for a file that has an entry in the
\* directory, whose block it re-embedded and rewrote
C12_EmptyObjectOnlyOnSuccess ==
    (store_hist.op = "update" /\ ReindexResponse(store_hist.st) = "{}") =>
        store_hist.path \in DOMAIN GetDirectory(directory).file_map

\* C29: once reindex(p) has returned "{}", no id that a stored record of p
\* had before the edit is left in the graph, as a node or in an edge list
C29_OldIdsLeaveGraph ==
    [][(/\ store_hist'.n # store_hist.n
        /\ store_hist'.op = "update"
        /\ ReindexResponse(store_hist'.st) = "{}")
       => {e.id : e \in {x \in StoredRecords : x.filepath = store_hist'.path}}
             \cap GraphIds(layers') = {}]_vars

\* C33: every block file holds BLOCK_SIZE records at most, whatever
\* operations were run on the data directory
C33_BlockWithinSize == \A b \in DOMAIN blocks : Len(blocks[b]) <= BLOCK_SIZE

\* the ids of the records the block files hold
StoredIds == {e.id : e \in StoredRecords}

\* C35: a reblock that returns Ok leaves the ids stored as they were: the
\* block files hold the ids they held before, each in one record, and the
\* directory lists those ids, each once
C35_ReblockKeepsRecords ==
    [][(/\ store_hist'.n # store_hist.n
        /\ store_hist'.op = "reblock"
        /\ store_hist'.st = "ok")
       => /\ StoredIds' = StoredIds
          /\ {directory'[k].id : k \in 1..Len(directory')} = StoredIds
          /\ Len(directory') = Cardinality(StoredIds)
          /\ \A i \in StoredIds' :
                Cardinality({<<b, k>> \in (DOMAIN blocks') \X (1..BLOCK_SIZE) :
                                k <= Len(blocks'[b]) /\ blocks'[b][k].id = i}) = 1]_vars

\* C36: after every operation that completed, a cache get of any id the
\* directory lists finds the record in the block the directory names
C36_DirectoryIdsStored ==
    store_hist.st \in {"ok", "uncatalogued"} =>
        \A k \in 1..Len(directory) :
            CacheGet(blocks, GetDirectory(directory).id_map, directory[k].id).st = "ok"

\* C37: sync_index(false) leaves the records and the directory entries of
\* the files that are not stale where they are, and with no stale file the
\* block files and the directory are as they were, the directory readable
C37_SyncKeepsFreshFiles ==
    [][(store_hist'.n # store_hist.n /\ store_hist'.op = "sync_stale")
       => /\ \A e \in StoredRecords :
                e.filepath \notin store_hist'.stale => e \in StoredRecords'
          /\ \A k \in 1..Len(directory) :
                directory[k].filepath \notin store_hist'.stale
                   => directory[k] \in Range(directory')
          /\ store_hist'.stale = {}
                => (blocks' = blocks /\ directory' = directory
                    /\ DirectoryParses(directory'))]_vars

----------------------------------------------------------------------------
(* Claims about the graph HNSW::new builds, under SpecIndex *)

\* HNSW::new has returned Ok
Built == store_hist.op = "new" /\ store_hist.st = "ok"
BottomLayer == layers[Len(layers)]
\* some node of the layer has at least c edges
HasEdges(layer, c) == \E n \in DOMAIN layer : Len(layer[n]) >= c

\* C14: after the build a node that is in layer j is in every layer k >= j
C14_LayersNested ==
    (Built /\ store_hist.removed = 0) =>
        \A j \in 1..Len(layers) : \A k \in j..Len(layers) :
            DOMAIN layers[j] \subseteq DOMAIN layers[k]

C14_Witness ==
    /\ Built
    /\ store_hist.removed = 0
    /\ Cardinality(DOMAIN layers[1]) = 2
    /\ Cardinality(DOMAIN BottomLayer) > 2

\* C15: after the build and after remove_node calls, whenever n lists (m, d)
\* in a layer, m is a node of that layer and lists (n, d)
C15_EdgesSymmetric ==
    Built =>
        \A j \in 1..Len(layers) : \A n \in DOMAIN layers[j] :
            \A x \in Range(layers[j][n]) :
                /\ x[1] \in DOMAIN layers[j]
                /\ <<n, x[2]>> \in Range(layers[j][x[1]])

C15_Witness ==
    /\ Built
    /\ store_hist.removed = 1
    /\ store_hist.orphans # {}
    /\ HasEdges(BottomLayer, 2)

\* C16: after the build every adjacency list is sorted ascending by distance
\* and holds no neighbour id twice
C16_AdjacencySorted ==
    (Built /\ store_hist.removed = 0) =>
        \A j \in 1..Len(layers) : \A n \in DOMAIN layers[j] :
            \A a \in 1..Len(layers[j][n]) : \A b \in (a + 1)..Len(layers[j][n]) :
                /\ layers[j][n][a][2] <= layers[j][n][b][2]
                /\ layers[j][n][a][1] # layers[j][n][b][1]

C16_Witness ==
    /\ Built
    /\ store_hist.removed = 0
    /\ store_hist.upper = MaxUpper
    /\ \E n \in DOMAIN BottomLayer :
          /\ Len(BottomLayer[n]) >= 3
          /\ BottomLayer[n][1][2] < BottomLayer[n][Len(BottomLayer[n])][2]

\* C17: after the build over a directory of N ids every one of the N ids is a
\* node of the bottom layer, and size is N
C17_AllIdsInBottomLayer ==
    (Built /\ store_hist.removed = 0) =>
        /\ DOMAIN BottomLayer = 0..(Len(directory) - 1)
        /\ index_size = Len(directory)

----------------------------------------------------------------------------
(* Claims about HNSW::query, under SpecIndex *)

\* the last query call returned a list
Returned == req # NoRequest /\ resp.st = "ok"

\* C18: query(q, k, ef) with ef >= k returns at most k items, on the early
\* return and on the return after the bottom layer
C18_AtMostK == Returned => Len(resp.results) <= req.k

C18_Witness ==
    /\ Returned
    /\ resp.early
    /\ req.k >= 1
    /\ req.k < req.ef
    /\ Len(resp.results) = req.k

\* C19: the list query returns is sorted ascending by distance
C19_ResultsSorted ==
    Returned =>
        \A a \in 1..Len(resp.results) : \A b \in (a + 1)..Len(resp.results) :
            resp.results[a][2] <= resp.results[b][2]

\* C20: every tag of every item returned compares true under every filter of
\* the query
C20_ResultsPassFilters ==
    Returned =>
        \A i \in 1..Len(resp.results) : \A f \in req.query.filters :
            \A tag \in resp.results[i][1].meta :
                IF f.comparator = "eq" THEN tag = f.value ELSE tag # f.value

C20_Witness ==
    /\ Returned
    /\ Len(resp.results) >= 2
    /\ req.query.filters # {}
    /\ \E n \in DOMAIN BottomLayer :
          ~FilterPass(req.query.filters, CacheGet(blocks, GetDirectory(directory).id_map, n).e)

\* C30: HNSW::new over a directory of N >= 2 ids completes whatever the
\* draws and the number of orphans, and the index it returns has
\* floor(log2 N) layers and size N
C30_BuildCompletes ==
    (store_hist.op = "new" /\ Len(directory) >= 2) =>
        /\ store_hist.st # "panic"
        /\ store_hist.st = "ok" =>
              (Len(layers) = ILog2(Len(directory)) /\ index_size = Len(directory))

\* C38: the index a build returns has a node in its top layer and in every
\* layer below it, whatever the layer draws were
C38_NoEmptyLayer ==
    (store_hist.op = "new" /\ store_hist.st = "ok" /\ store_hist.removed = 0) =>
        \A j \in 1..Len(layers) : DOMAIN layers[j] # {}

----------------------------------------------------------------------------
(* SpecCodec: the index file and a block file as the bytes they hold.  The  *)
(* index is written by HNSW::serialize and read by HNSW::deserialize, a     *)
(* block by EmbeddingBlock::to_file and read by EmbeddingBlock::from_file,  *)
(* in the byte layouts of src/src/hnsw.rs, src/src/dbio.rs and              *)
(* src/src/openai.rs.  Both writers open the file with create and write and *)
(* without truncate.  An f32 stands here as its 32-bit pattern.             *)

\* openai.rs:12 sets EMBED_DIM to 1536; the model runs the same code with short vectors
EMBED_DIM == 2
\* writes made to the files of one run
MaxWrites == 2

\* the concatenation of the sequences of ss
RECURSIVE Concat(_)
Concat(ss) == IF ss = <<>> THEN <<>> ELSE Head(ss) \o Concat(Tail(ss))

\* n.to_be_bytes() on w bytes, for n below 2^24
BE(n, w) == [i \in 1..w |-> IF w - i > 2 THEN 0 ELSE (n \div (256 ^ (w - i))) % 256]
\* from_be_bytes(b); every value of 2^24 or more reads as 2^24
FromBE(b) ==
    IF \E i \in 1..(Len(b) - 3) : b[i] # 0 THEN 16777216
    ELSE (IF Len(b) > 2 THEN b[Len(b) - 2] * 65536 ELSE 0)
         + (IF Len(b) > 1 THEN b[Len(b) - 1] * 256 ELSE 0) + b[Len(b)]
\* the integer in bytes[off..off + w].  Bytes past the end read as 0; the
\* reader that took them ends past the end of the input, where the slice panics
At(bytes, off, w) ==
    FromBE([i \in 1..w |-> IF off + i <= Len(bytes) THEN bytes[off + i] ELSE 0])
\* as_bytes() of the strings of the model
Utf8(str) ==
    CASE str = "a" -> <<97>> [] str = "b" -> <<98>> [] str = "c d" -> <<99, 32, 100>>
      [] OTHER -> <<>>
\* String::from_utf8(bytes).unwrap()
FromUtf8(bytes) ==
    IF \E str \in Paths : Utf8(str) = bytes THEN CHOOSE str \in Paths : Utf8(str) = bytes
    ELSE ""

\* a write that puts the bytes after the old content
WriteAppended(old, bytes) == old \o bytes

\* OpenOptions::new().create(true).write(true).open(path), then write_all(bytes):
\* the file is not truncated, the bytes replace its first Len(bytes) bytes
Overwrite(old, bytes) == bytes \o SubSeq(old, Len(bytes) + 1, Len(old))

\* HNSW::serialize, the bytes written; a layer is iterated in the order ord
HnswToBytes(h, ord) ==
    BE(Len(h.embedding_sources), 8)
    \o Concat([i \in 1..Len(h.embedding_sources) |->
                  BE(Len(Utf8(h.embedding_sources[i])), 8) \o Utf8(h.embedding_sources[i])])
    \o BE(Len(h.layers), 8)
    \o Concat([i \in 1..Len(h.layers) |->
          BE(i - 1, 8) \o BE(Cardinality(DOMAIN h.layers[i]), 8)
          \o Concat([k \in 1..Cardinality(DOMAIN h.layers[i]) |->
                With(KeysTake(h.layers[i], k, ord)[k], LAMBDA v :
                    BE(v, 8) \o BE(Len(h.layers[i][v]), 8)
                    \o Concat([n \in 1..Len(h.layers[i][v]) |->
                          BE(h.layers[i][v][n][1], 8) \o BE(h.layers[i][v][n][2], 4)]))])])

\* HNSW::deserialize, for _ in 0..e: one (u, d) pair per turn
RECURSIVE ReadEdges(_, _, _, _)
ReadEdges(bytes, off, e, neighbors) ==
    IF e = 0 \/ off > Len(bytes) THEN [val |-> neighbors, off |-> off]
    ELSE ReadEdges(bytes, off + 12, e - 1,
                   Append(neighbors, <<At(bytes, off, 8), At(bytes, off + 8, 4)>>))

\* HNSW::deserialize, for _ in 0..o: v, e and the e neighbours, layer.insert
RECURSIVE ReadNodes(_, _, _, _)
ReadNodes(bytes, off, o, layer) ==
    IF o = 0 \/ off > Len(bytes) THEN [val |-> layer, off |-> off]
    ELSE With(ReadEdges(bytes, off + 16, At(bytes, off + 8, 8), <<>>), LAMBDA r :
            ReadNodes(bytes, r.off, o - 1, Insert(layer, At(bytes, off, 8), r.val)))

\* HNSW::deserialize, for _ in 0..l: the layer index (unused), o and the o nodes
RECURSIVE ReadLayers(_, _, _, _)
ReadLayers(bytes, off, l, ls) ==
    IF l = 0 \/ off > Len(bytes) THEN [val |-> ls, off |-> off]
    ELSE With(ReadNodes(bytes, off + 16, At(bytes, off + 8, 8), EmptyMap), LAMBDA r :
            ReadLayers(bytes, r.off, l - 1, Append(ls, r.val)))

\* HNSW::deserialize, for _ in 0..n: the length s and the s bytes of a source
RECURSIVE ReadSources(_, _, _, _)
ReadSources(bytes, off, n, sources) ==
    IF n = 0 \/ off > Len(bytes) THEN [val |-> sources, off |-> off]
    ELSE With(At(bytes, off, 8), LAMBDA len :
            ReadSources(bytes, off + 8 + len, n - 1,
                        Append(sources, FromUtf8(SubSeq(bytes, off + 9, off + 8 + len)))))

\* HNSW::deserialize of the bytes read from the file
HnswFromBytes(bytes) ==
    With(ReadSources(bytes, 8, At(bytes, 0, 8), <<>>), LAMBDA srcs :
    With(ReadLayers(bytes, srcs.off + 8, At(bytes, srcs.off, 8), <<>>), LAMBDA r :
        IF r.off > Len(bytes) THEN [st |-> "panic", value |-> <<>>]
        ELSE [st |-> "ok", value |-> <<[embedding_sources |-> srcs.val, layers |-> r.val]>>]))

\* EmbeddingSource::to_bytes; an absent subset is <<>> here
SourceToBytes(source) ==
    BE(Len(Utf8(source.filepath)), 8) \o Utf8(source.filepath)
    \o BE(IF source.subset = <<>> THEN 0 ELSE source.subset[1], 8)
    \o BE(IF source.subset = <<>> THEN 0 ELSE source.subset[2], 8)

\* EmbeddingSource::from_bytes
SourceFromBytes(bytes) ==
    With(At(bytes, 0, 8), LAMBDA len :
    With(<<At(bytes, 8 + len, 8), At(bytes, 16 + len, 8)>>, LAMBDA range :
        [filepath |-> FromUtf8(SubSeq(bytes, 9, 8 + len)),
         subset |-> IF range = <<0, 0>> THEN <<>> ELSE range]))

\* Embedding::to_bytes
EmbeddingToBytes(e) ==
    BE(e.id, 8) \o BE(Len(SourceToBytes(e.source_file)), 8) \o SourceToBytes(e.source_file)
    \o Concat([i \in 1..EMBED_DIM |-> BE(e.data[i], 4)])

\* Embedding::from_bytes: every 4 bytes after the source are one value of
\* data; a chunk short of 4 bytes fails try_into().unwrap(), a value past
\* data[EMBED_DIM - 1] is an index out of bounds
EmbeddingFromBytes(bytes) ==
    With(At(bytes, 8, 8), LAMBDA source_size :
    With(Len(bytes) - 16 - source_size, LAMBDA rest :
        IF rest < 0 \/ rest % 4 # 0 \/ rest > 4 * EMBED_DIM THEN [st |-> "panic"]
        ELSE [st |-> "ok",
              e |-> [id |-> At(bytes, 0, 8),
                     source_file |-> SourceFromBytes(SubSeq(bytes, 17, 16 + source_size)),
                     data |-> [i \in 1..EMBED_DIM |->
                                  IF 4 * i <= rest
                                  THEN At(bytes, 16 + source_size + 4 * (i - 1), 4)
                                  ELSE 0]]]))

\* EmbeddingBlock::to_file, the bytes written: the count, the offset of
\* each embedding, the embeddings
BlockToBytes(block) ==
    With([i \in 1..Len(block) |-> EmbeddingToBytes(block[i])], LAMBDA embedding_bytes :
        BE(Len(block), 8)
        \o Concat([i \in 1..Len(block) |->
              BE(8 + 8 * Len(block) + Len(Concat(SubSeq(embedding_bytes, 1, i - 1))), 8)])
        \o Concat(embedding_bytes))

\* EmbeddingBlock::from_file of the bytes read: embedding i lies between its
\* offset and the next one, the last one between its offset and bytes.len()
BlockFromBytes(bytes) ==
    With(At(bytes, 0, 8), LAMBDA num_embeddings :
    With([i \in 1..num_embeddings |-> At(bytes, 8 * i, 8)], LAMBDA offsets :
    With([i \in 1..num_embeddings |->
             EmbeddingFromBytes(SubSeq(bytes, offsets[i] + 1,
                                       IF i = num_embeddings THEN Len(bytes)
                                       ELSE offsets[i + 1]))], LAMBDA got :
        IF \E i \in 1..num_embeddings : got[i].st # "ok"
        THEN [st |-> "panic", value |-> <<>>]
        ELSE [st |-> "ok", value |-> <<[i \in 1..num_embeddings |-> got[i].e]>>])))

\* the graphs serialized: bottom layers of two or three nodes (connected,
\* with ties, without edges), alone or under a top layer
CodecBottoms ==
    {(0 :> <<<<1, 5>>>>) @@ (1 :> <<<<0, 5>>>>),
     (0 :> <<<<1, 5>>, <<2, 15>>>>) @@ (1 :> <<<<0, 5>>, <<2, 5>>>>)
        @@ (2 :> <<<<1, 5>>, <<0, 15>>>>),
     (0 :> <<<<2, 5>>, <<1, 5>>>>) @@ (1 :> <<<<0, 5>>>>) @@ (2 :> <<<<0, 5>>>>),
     (0 :> <<>>) @@ (1 :> <<>>)}
CodecTops == {EmptyMap, (0 :> <<>>), (0 :> <<<<1, 5>>>>) @@ (1 :> <<<<0, 5>>>>)}
CodecGraphs ==
    [embedding_sources : {<<>>, <<"c d", "a">>},
     layers : {<<b>> : b \in CodecBottoms} \cup (CodecTops \X CodecBottoms)]

\* the blocks written: up to BLOCK_SIZE records, each without a subset, with
\* the subset (0, 0) or with a subset further in the file
CodecSources == [filepath : {"a", "c d"}, subset : {<<>>, <<0, 0>>, <<2, 5>>}]
CodecBlocks ==
    UNION {{[i \in 1..n |-> [id |-> i - 1, source_file |-> src[i],
                             data |-> [d \in 1..EMBED_DIM |-> 10 * i + d]]] :
               src \in [1..n -> CodecSources]} : n \in 0..BLOCK_SIZE}

NoRead == [op |-> "none", st |-> "none", value |-> <<>>]

NoStore ==
    /\ blocks = EmptyMap
    /\ directory = <<>>
NoCache ==
    /\ lru_heap = <<>>
    /\ lru_front = NoNode
    /\ lru_back = NoNode
    /\ lru_len = 0
    /\ node_map = EmptyMap
    /\ embeddings = EmptyMap
    /\ dirty_embeddings = {}
    /\ cache_directory = EmptyMap
    /\ max_size = 0
    /\ cache_hist = [status |-> "ok"]

\* neither file exists yet
InitCodec ==
    /\ files = [index |-> <<>>, block |-> <<>>]
    /\ codec_hist = [index |-> <<>>, block |-> <<>>, got |-> NoRead, n |-> 0]
    /\ NoStore
    /\ NoCache
    /\ NoIndex
    /\ NoServer
    /\ NoChunker
    /\ NoConn
    /\ NoReblock
    /\ NoEmbed

\* h.serialize(path of the index file)
Serialize(h, ord) ==
    /\ codec_hist.n < MaxWrites
    /\ files' = [files EXCEPT !.index = Overwrite(@, HnswToBytes(h, ord))]
    /\ codec_hist' = [codec_hist EXCEPT !.index = <<h>>, !.got = NoRead, !.n = @ + 1]
    /\ UNCHANGED <<coreVars, chunkVars, connVars, reblockVars, embedVars>>

\* HNSW::deserialize(path of the index file): File::open fails on a missing file
Deserialize ==
    /\ codec_hist.got = NoRead
    /\ codec_hist' = [codec_hist EXCEPT !.got =
          IF files.index = <<>> THEN [op |-> "deserialize", st |-> "err", value |-> <<>>]
          ELSE [op |-> "deserialize"] @@ HnswFromBytes(files.index)]
    /\ UNCHANGED <<files, coreVars, chunkVars, connVars, reblockVars, embedVars>>

\* block.to_file(path of the block file)
ToFile(block) ==
    /\ codec_hist.n < MaxWrites
    /\ files' = [files EXCEPT !.block = Overwrite(@, BlockToBytes(block))]
    /\ codec_hist' = [codec_hist EXCEPT !.block = <<block>>, !.got = NoRead, !.n = @ + 1]
    /\ UNCHANGED <<coreVars, chunkVars, connVars, reblockVars, embedVars>>

\* EmbeddingBlock::from_file(path of the block file, block number)
FromFile ==
    /\ codec_hist.got = NoRead
    /\ codec_hist' = [codec_hist EXCEPT !.got =
          IF files.block = <<>> THEN [op |-> "from_file", st |-> "err", value |-> <<>>]
          ELSE [op |-> "from_file"] @@ BlockFromBytes(files.block)]
    /\ UNCHANGED <<files, coreVars, chunkVars, connVars, reblockVars, embedVars>>

NextCodec ==
    \/ \E h \in CodecGraphs, ord \in KeyOrders : Serialize(h, ord)
    \/ Deserialize
    \/ \E block \in CodecBlocks : ToFile(block)
    \/ FromFile

SpecCodec == InitCodec /\ [][NextCodec]_vars

----------------------------------------------------------------------------
(* Claims about the files, under SpecCodec *)

\* C21: deserialize of the file that serialize wrote returns the layers of
\* the index written, in the same order, each with the same nodes and the
\* same adjacency lists (neighbour ids, distances, order), whatever the file
\* held before
C21_IndexRoundTrip ==
    (codec_hist.got.op = "deserialize" /\ codec_hist.index # <<>>) =>
        /\ codec_hist.got.st = "ok"
        /\ codec_hist.got.value[1].layers = codec_hist.index[1].layers

\* an index with a top layer and ordered adjacency lists was read back from
\* a file that is longer than what the last serialize wrote
C21_Witness ==
    /\ codec_hist.got.op = "deserialize"
    /\ codec_hist.index # <<>>
    /\ Len(codec_hist.index[1].layers) = 2
    /\ \E v \in DOMAIN codec_hist.index[1].layers[2] : Len(codec_hist.index[1].layers[2][v]) = 2
    /\ Len(files.index) > Len(HnswToBytes(codec_hist.index[1], "asc"))

\* C22: from_file of the file that to_file wrote returns the records of the
\* block written, in the same order, each with its id, filepath, subset and
\* vector, whatever the subset and whatever the file held before
C22_BlockRoundTrip ==
    (codec_hist.got.op = "from_file" /\ codec_hist.block # <<>>) =>
        /\ codec_hist.got.st = "ok"
        /\ codec_hist.got.value = codec_hist.block

----------------------------------------------------------------------------
(* SpecChunker: the splitters of parsing.rs and batch_sources over source   *)
(* files.  A file is a sequence of characters; "U2" stands for a character  *)
(* of two bytes in UTF-8, "CR" and "LF" for the line ends, the others are   *)
(* one byte long.  String::len() counts bytes, chars[i] indexes characters. *)

\* parsing.rs:40 sets TOKEN_LIMIT to 8192; the model runs the same code with a small limit
TOKEN_LIMIT == 3
\* characters of the longest source file
MaxFileLen == 4

Chars == {"x", ";", "U2", "CR", "LF"}
\* char::len_utf8
ByteLen(c) == IF c = "U2" THEN 2 ELSE 1
\* String::len(): the bytes of a string
RECURSIVE Bytes(_)
Bytes(str) == IF str = <<>> THEN 0 ELSE ByteLen(Head(str)) + Bytes(Tail(str))

\* read_source for a source without a subset: contents.replace("\r\n", "\n")
RECURSIVE ReadSource(_)
ReadSource(contents) ==
    IF Len(contents) < 2 THEN contents
    ELSE IF contents[1] = "CR" /\ contents[2] = "LF"
    THEN <<"LF">> \o ReadSource(SubSeq(contents, 3, Len(contents)))
    ELSE <<contents[1]>> \o ReadSource(Tail(contents))

\* (chunk.clone(), (start, end))
Chunk(chunk, start, end) == [text |-> chunk, start |-> start, end |-> end]

\* the chunk left after a splitter's loop, pushed unless it is empty
LastChunk(chunks_, chunk, contents) ==
    [st |-> "ok",
     chunks |-> IF chunk = <<>> THEN chunks_
                ELSE Append(chunks_, Chunk(chunk, Bytes(contents) - Bytes(chunk),
                                           Bytes(contents)))]

\* the while loop of naive_split and of max_length_split, whose limit is
\* TOKEN_LIMIT, or max_length when that is smaller (i counts from 0)
RECURSIVE LengthLoop(_, _, _, _, _)
LengthLoop(chars, i, chunk, chunks_, limit) ==
    IF i >= Len(chars) THEN LastChunk(chunks_, chunk, chars)
    ELSE IF Bytes(chunk) >= limit
    THEN LengthLoop(chars, i + 1, <<>>,
                    Append(chunks_, Chunk(chunk, i - Bytes(chunk), i)), limit)
    ELSE LengthLoop(chars, i + ByteLen(chars[i + 1]), Append(chunk, chars[i + 1]),
                    chunks_, limit)

\* naive_split(source, _)
NaiveSplit(contents) == LengthLoop(ReadSource(contents), 0, <<>>, <<>>, TOKEN_LIMIT)

\* value.parse::<usize>().unwrap() for the numbers the rules of the model hold
ParseUsize(value) == IF value = <<"1">> THEN 1 ELSE 2

\* max_length_split(source, max_length)
MaxLengthSplit(contents, max_length) ==
    LengthLoop(ReadSource(contents), 0, <<>>, <<>>, Min(TOKEN_LIMIT, ParseUsize(max_length)))

\* the while loop of separator_split
RECURSIVE SeparatorLoop(_, _, _, _, _)
SeparatorLoop(chars, i, chunk, chunks_, separator) ==
    IF i >= Len(chars) - Bytes(separator) THEN LastChunk(chunks_, chunk, chars)
    ELSE IF SubSeq(chars, i + 1, i + Bytes(separator)) = separator
            \/ Bytes(chunk) >= TOKEN_LIMIT
    THEN SeparatorLoop(chars, i + Bytes(separator), <<>>,
                       Append(chunks_, Chunk(chunk, i - Bytes(chunk), i)), separator)
    ELSE SeparatorLoop(chars, i + ByteLen(chars[i + 1]), Append(chunk, chars[i + 1]),
                       chunks_, separator)

\* separator_split(source, separator): chars.len() - separator.len() is
\* computed in usize; below zero it overflows (a panic in a debug build) or
\* wraps, and then the first window chars[i..i + separator.len()] is out of range
SeparatorSplit(contents, separator) ==
    IF Len(ReadSource(contents)) < Bytes(separator) THEN [st |-> "panic", chunks |-> <<>>]
    ELSE SeparatorLoop(ReadSource(contents), 0, <<>>, <<>>, separator)

\* batch_sources: the splitter the rules select, each Split, MaxLength or
\* Code rule overwriting the choice of the rules before it
RECURSIVE SplitFunction(_, _)
SplitFunction(rules, chosen) ==
    IF rules = <<>> THEN chosen
    ELSE SplitFunction(Tail(rules),
            CASE Head(rules).rule_type = "Split" ->
                    [rule_type |-> "separator", rule_arg |-> Head(rules).value]
              [] Head(rules).rule_type = "MaxLength" ->
                    [rule_type |-> "max_length", rule_arg |-> Head(rules).value]
              [] Head(rules).rule_type = "Code" -> [chosen EXCEPT !.rule_type = "code"]
              [] OTHER -> chosen)

\* function_split on a source of the model: their paths ("a", "b") have no
\* extension, filepath.extension() is None and the call returns the error
\* "Missing file extension"
FunctionSplit(contents) == [st |-> "err", chunks |-> <<>>]

\* split_function(&source, &rule_arg) for the splitters of the model
ApplySplit(split, contents) ==
    CASE split.rule_type = "separator" -> SeparatorSplit(contents, split.rule_arg)
      [] split.rule_type = "max_length" -> MaxLengthSplit(contents, split.rule_arg)
      [] split.rule_type = "code" -> FunctionSplit(contents)
      [] OTHER -> NaiveSplit(contents)

\* batch_sources: contents_split.retain for every MinLength and Alphanumeric rule
RECURSIVE Retain(_, _)
Retain(rules, contents_split) ==
    IF rules = <<>> THEN contents_split
    ELSE Retain(Tail(rules),
            CASE Head(rules).rule_type = "MinLength" ->
                    SelectSeq(contents_split, LAMBDA c : c.end - c.start >= ParseUsize(Head(rules).value))
              [] Head(rules).rule_type = "Alphanumeric" ->
                    SelectSeq(contents_split,
                              LAMBDA c : \E k \in 1..Len(c.text) : c.text[k] \notin {";"})
              [] OTHER -> contents_split)

\* batch_sources: the chunks of one source packed into the batches, the
\* first of them into the last batch there is; split_len starts at 0
RECURSIVE Pack(_, _, _, _)
Pack(batches_, split_len, contents_split, filepath) ==
    IF contents_split = <<>> THEN batches_
    ELSE With(Bytes(Head(contents_split).text), LAMBDA len :
         With(IF len + split_len >= TOKEN_LIMIT THEN Append(batches_, <<>>) ELSE batches_,
              LAMBDA bs :
         With(IF len + split_len >= TOKEN_LIMIT THEN 0 ELSE split_len, LAMBDA sl :
            IF len > 0
            THEN Pack([bs EXCEPT ![Len(bs)] =
                          Append(@, [filepath |-> filepath,
                                     subset |-> <<Head(contents_split).start,
                                                  Head(contents_split).end>>,
                                     text |-> Head(contents_split).text])],
                      sl + len, Tail(contents_split), filepath)
            ELSE Pack(bs, sl, Tail(contents_split), filepath))))

\* batch_sources: for source in sources, then batches.retain(non-empty)
RECURSIVE BatchLoop(_, _, _, _)
BatchLoop(batches_, sources, rules, texts) ==
    IF sources = <<>>
    THEN [st |-> "ok", batches |-> SelectSeq(batches_, LAMBDA b : b # <<>>)]
    ELSE With(ApplySplit(SplitFunction(rules, [rule_type |-> "", rule_arg |-> <<>>]),
                         texts[Head(sources)]), LAMBDA r :
            IF r.st # "ok" THEN [st |-> r.st, batches |-> <<>>]
            ELSE BatchLoop(Pack(batches_, 0, Retain(rules, r.chunks), Head(sources)),
                           Tail(sources), rules, texts))

\* the contents of the source files
FileContents == UNION {[1..n -> Chars] : n \in 0..MaxFileLen}
\* the rules of the ledger's rule file that apply to the sources
RuleSets ==
    {<<>>, <<[rule_type |-> "Split", value |-> <<";">>]>>,
     <<[rule_type |-> "MaxLength", value |-> <<"2">>]>>,
     <<[rule_type |-> "MinLength", value |-> <<"2">>]>>,
     <<[rule_type |-> "Alphanumeric", value |-> <<"true">>],
       [rule_type |-> "Split", value |-> <<";">>]>>,
     <<[rule_type |-> "Split", value |-> <<";">>],
       [rule_type |-> "MaxLength", value |-> <<"2">>]>>,
     <<[rule_type |-> "MaxLength", value |-> <<"2">>],
       [rule_type |-> "Split", value |-> <<";">>]>>,
     <<[rule_type |-> "Code", value |-> <<"true">>],
       [rule_type |-> "MaxLength", value |-> <<"2">>]>>,
     <<[rule_type |-> "MaxLength", value |-> <<"2">>],
       [rule_type |-> "Code", value |-> <<"true">>]>>}
\* the splitter calls made: naive, MaxLength(1), MaxLength(2), Split(";"), Split(";;")
SplitCalls ==
    {[rule_type |-> "", rule_arg |-> <<>>],
     [rule_type |-> "max_length", rule_arg |-> <<"1">>],
     [rule_type |-> "max_length", rule_arg |-> <<"2">>],
     [rule_type |-> "separator", rule_arg |-> <<";">>],
     [rule_type |-> "separator", rule_arg |-> <<";", ";">>]}

NoChunks == [op |-> "none", st |-> "none", chunks |-> <<>>]
NoBatches == [op |-> "none", st |-> "none", batches |-> <<>>]

InitChunker ==
    /\ \E a \in FileContents, b \in {<<>>, <<"x", "x">>} :
          source_files = [a |-> a, b |-> b]
    /\ chunks = NoChunks
    /\ batches = NoBatches
    /\ NoStore
    /\ NoCache
    /\ NoIndex
    /\ NoServer
    /\ NoCodec
    /\ NoConn
    /\ NoReblock
    /\ NoEmbed

\* one splitter called on one source file (a run makes one call: the calls
\* read the files and leave nothing behind)
Split(filepath, split) ==
    /\ chunks = NoChunks /\ batches = NoBatches
    /\ chunks' = [op |-> "split", filepath |-> filepath, split |-> split]
                    @@ ApplySplit(split, source_files[filepath])
    /\ batches' = NoBatches
    /\ UNCHANGED <<source_files, coreVars, codecVars, connVars, reblockVars, embedVars>>

\* batch_sources(sources) under the indexing rules, batches starting as
\* vec![Vec::new()]
Batch(sources, rules) ==
    /\ chunks = NoChunks /\ batches = NoBatches
    /\ batches' = [op |-> "batch", sources |-> sources, rules |-> rules,
                    split |-> SplitFunction(rules, [rule_type |-> "", rule_arg |-> <<>>])]
                     @@ BatchLoop(<<(<<>>)>>, sources, rules, source_files)
    /\ chunks' = NoChunks
    /\ UNCHANGED <<source_files, coreVars, codecVars, connVars, reblockVars, embedVars>>

NextChunker ==
    \/ \E filepath \in {"a", "b"}, split \in SplitCalls : Split(filepath, split)
    \/ \E sources \in {<<"a">>, <<"a", "b">>, <<"b", "a">>}, rules \in RuleSets :
          Batch(sources, rules)

SpecChunker == InitChunker /\ [][NextChunker]_vars

----------------------------------------------------------------------------
(* Claims about the chunker, under SpecChunker *)

\* the string without the occurrences of the separator, found left to right
RECURSIVE RemoveSeparators(_, _)
RemoveSeparators(str, separator) ==
    IF Len(str) < Len(separator) THEN str
    ELSE IF SubSeq(str, 1, Len(separator)) = separator
    THEN RemoveSeparators(SubSeq(str, Len(separator) + 1, Len(str)), separator)
    ELSE <<Head(str)>> \o RemoveSeparators(Tail(str), separator)

\* the texts of the chunks, one after the other
ChunkTexts(chunks_) == Concat([k \in 1..Len(chunks_) |-> chunks_[k].text])

\* C23: the texts of the chunks a splitter returns, concatenated in order,
\* are the CRLF-normalized content of the file, without the occurrences of
\* the separator when the splitter is Split
C23_ChunksKeepContent ==
    (chunks.op = "split" /\ chunks.st = "ok") =>
        ChunkTexts(chunks.chunks) =
            IF chunks.split.rule_type = "separator"
            THEN RemoveSeparators(ReadSource(source_files[chunks.filepath]),
                                  chunks.split.rule_arg)
            ELSE ReadSource(source_files[chunks.filepath])

\* C24: no chunk a splitter returns, and no chunk batch_sources puts into a
\* batch, is longer than TOKEN_LIMIT bytes
C24_ChunkWithinLimit ==
    /\ \A k \in 1..Len(chunks.chunks) : Bytes(chunks.chunks[k].text) <= TOKEN_LIMIT
    /\ \A b \in 1..Len(batches.batches) : \A k \in 1..Len(batches.batches[b]) :
          Bytes(batches.batches[b][k].text) <= TOKEN_LIMIT

\* C25: every batch batch_sources returns is non-empty and the byte lengths
\* of its chunks add up to TOKEN_LIMIT at most
C25_BatchWithinLimit ==
    \A b \in 1..Len(batches.batches) :
        /\ batches.batches[b] # <<>>
        /\ Bytes(Concat([k \in 1..Len(batches.batches[b]) |-> batches.batches[b][k].text]))
              <= TOKEN_LIMIT

\* the splitter of the documented priority for a source of the model, whose
\* path has no extension of a supported language: Split, else MaxLength,
\* else Naive
PrioritySplitter(rules) ==
    IF \E k \in 1..Len(rules) : rules[k].rule_type = "Split" THEN "separator"
    ELSE IF \E k \in 1..Len(rules) : rules[k].rule_type = "MaxLength" THEN "max_length"
    ELSE ""

\* C31: whatever the order of the rules, the splitter batch_sources chooses
\* for a source follows the priority Code (for a supported language), Split,
\* MaxLength, Naive
C31_SplitterByPriority ==
    batches.op = "batch" => batches.split.rule_type = PrioritySplitter(batches.rules)

\* the bytes of a string, a two-byte character giving two
RECURSIVE ByteSeq(_)
ByteSeq(str) ==
    IF str = <<>> THEN <<>>
    ELSE (IF Head(str) = "U2" THEN <<"U2", "U2+">> ELSE <<Head(str)>>) \o ByteSeq(Tail(str))

\* text is what the normalized file holds at the bytes [start, end)
IsRangeOf(text, start, end, contents) ==
    /\ 0 <= start /\ start <= end /\ end <= Bytes(ReadSource(contents))
    /\ end - start = Bytes(text)
    /\ SubSeq(ByteSeq(ReadSource(contents)), start + 1, end) = ByteSeq(text)

\* C39: the subset of every chunk a splitter returns, and of every chunk
\* batch_sources emits, is a half-open byte range of the normalized file
\* as long as the text, and the text is the file's content at that range
C39_SubsetIsTextRange ==
    /\ \A k \in 1..Len(chunks.chunks) :
          IsRangeOf(chunks.chunks[k].text, chunks.chunks[k].start, chunks.chunks[k].end,
                    source_files[chunks.filepath])
    /\ \A b \in 1..Len(batches.batches) : \A k \in 1..Len(batches.batches[b]) :
          IsRangeOf(batches.batches[b][k].text, batches.batches[b][k].subset[1],
                    batches.batches[b][k].subset[2],
                    source_files[batches.batches[b][k].filepath])

----------------------------------------------------------------------------
(* SpecConn: one connection to the server.  The client writes request       *)
(* frames to the stream (DeweyClient::send writes one); main spawns         *)
(* handle_client for the connection, which reads one frame, builds the      *)
(* response and writes it, then returns, and the stream is dropped.  What   *)
(* the handler does between the read and the write (the embedding, the      *)
(* lock, the query) is SpecServer's; here its outcome is a response body or *)
(* an Err.  String::to_bytes comes from the Serialize trait, whose source   *)
(* is not in this tree; spec section 4.1 gives a variable-length field a    *)
(* 64-bit length prefix.                                                    *)

\* requests a client writes on one connection
MaxRequests == 2

\* the JSON texts of the requests and of the responses, as bytes
RequestBodies == {<<123, 113, 125>>, <<123, 101, 125>>, <<123, 101, 101, 125>>}
ResponseBodies == {<<123, 125>>, <<123, 91, 93, 125>>, <<123, 91, 49, 93, 125>>}

\* (len as u32).to_be_bytes() followed by the bytes of the text
Frame(text) == BE(Len(text), 4) \o text

\* String::to_bytes of the Serialize trait: a 64-bit length, then the bytes
StringToBytes(text) == BE(Len(text), 8) \o text

\* DeweyClient::send after its write: read_exact of the length, read_exact of
\* the body, serde_json::from_str; the server has closed the stream
ClientDecode(bytes) ==
    IF Len(bytes) < 4 \/ Len(bytes) < 4 + At(bytes, 0, 4) THEN [st |-> "err", body |-> <<>>]
    ELSE IF SubSeq(bytes, 5, 4 + At(bytes, 0, 4)) \notin ResponseBodies
    THEN [st |-> "err", body |-> <<>>]
    ELSE [st |-> "ok", body |-> SubSeq(bytes, 5, 4 + At(bytes, 0, 4))]

InitConn ==
    /\ stream = [up |-> <<>>, down |-> <<>>, closed |-> FALSE]
    /\ client = [sent |-> <<>>, got |-> [st |-> "none", body |-> <<>>]]
    /\ pc = "accepted"
    /\ req = <<>>
    /\ resp = <<>>
    /\ mutex = [holder |-> 0, poisoned |-> FALSE]
    /\ to_delete = <<>>
    /\ NoStore
    /\ NoCache
    /\ NoIndex
    /\ NoCodec
    /\ NoChunker
    /\ NoReblock
    /\ NoEmbed

\* the client writes the frame of one more request
ClientWrite(request) ==
    /\ Len(client.sent) < MaxRequests
    /\ client.got.st = "none"
    /\ ~stream.closed
    /\ stream' = [stream EXCEPT !.up = @ \o Frame(request)]
    /\ client' = [client EXCEPT !.sent = Append(@, request)]
    /\ UNCHANGED <<pc, req, resp>>

\* handle_client: read_exact of the size, read_exact of the message
HandlerRead ==
    /\ pc = "accepted"
    /\ Len(stream.up) >= 4
    /\ Len(stream.up) >= 4 + At(stream.up, 0, 4)
    /\ req' = SubSeq(stream.up, 5, 4 + At(stream.up, 0, 4))
    /\ stream' = [stream EXCEPT !.up = SubSeq(@, 5 + At(stream.up, 0, 4), Len(@))]
    /\ pc' = "read"
    /\ UNCHANGED <<resp, client>>

\* handle_client returns Err (the request does not parse, the embedding
\* fails): nothing is written and the stream is dropped
HandlerFails ==
    /\ pc = "read"
    /\ pc' = "done"
    /\ stream' = [stream EXCEPT !.closed = TRUE]
    /\ UNCHANGED <<req, resp, client>>

\* handle_client from serde_json::to_string(&response) to Ok(()): the
\* handler writes response.to_bytes() and returns, the stream is dropped
HandlerResponds(response) ==
    /\ pc = "read"
    /\ resp' = response
    /\ stream' = [stream EXCEPT !.down = @ \o StringToBytes(response), !.closed = TRUE]
    /\ pc' = "done"
    /\ UNCHANGED <<req, client>>

\* DeweyClient::send reads its response
ClientRead ==
    /\ client.sent # <<>>
    /\ client.got.st = "none"
    /\ \/ stream.closed
       \/ Len(stream.down) >= 4 /\ Len(stream.down) >= 4 + At(stream.down, 0, 4)
    /\ client' = [client EXCEPT !.got = ClientDecode(stream.down)]
    /\ UNCHANGED <<stream, pc, req, resp>>

NextConn ==
    /\ \/ \E request \in RequestBodies : ClientWrite(request)
       \/ HandlerRead
       \/ HandlerFails
       \/ \E response \in ResponseBodies : HandlerResponds(response)
       \/ ClientRead
    /\ UNCHANGED <<storeVars, cacheVars, indexVars, mutex, to_delete, codecVars, chunkVars,
                   reblockVars, embedVars>>

SpecConn == InitConn /\ [][NextConn]_vars

----------------------------------------------------------------------------
(* Claims about the connection, under SpecConn *)

\* C26: what the server wrote for a response is the 4-byte big-endian
\* length of the JSON body followed by the body, and the client's send
\* decodes that body
C26_ResponseFramed ==
    resp # <<>> =>
        /\ stream.down = Frame(resp)
        /\ client.got.st # "none" => client.got = [st |-> "ok", body |-> resp]

\* C28: the requests written on one connection are all processed, in their
\* order: when the handler of the connection has answered and returned, no
\* request that arrived on the connection is left unread
C28_RequestsAnswered ==
    (pc = "done" /\ resp # <<>>) => stream.up = <<>>

----------------------------------------------------------------------------
(* SpecReblock: the file operations of reblock on the data directory, one   *)
(* at a time, from the state where the index is loaded, the layout of the   *)
(* new blocks is computed and $DATA_DIR/temp is created.  read_dir lists    *)
(* the files in an arbitrary order.                                         *)

\* NoDir: the temp directory does not exist
NoDir == [exists |-> FALSE, files |-> EmptyMap]

InitReblock ==
    /\ \E counts \in {c \in StoreCounts : c["a"] = MinChunks /\ c["b"] = MinChunks} :
          /\ blocks = SyncIndexBlocks(EmbeddedLedger(counts, 0))
          /\ directory = SyncIndexDirectory(EmbeddedLedger(counts, 0))
    /\ \E profile \in DrawProfiles, ord \in KeyOrders :
          \E g \in {HNSWNew(blocks, directory, profile, ord)} :
             /\ g.st = "ok"
             /\ index_size = g.size
             /\ layers = g.layers
             /\ \E r \in {ReblockResult(g.layers, blocks, directory, ord)} :
                   /\ r.st = "ok"
                   /\ reblock = [pc |-> "write", i |-> 0, blocks |-> r.blocks,
                                 directory |-> r.directory,
                                 old |-> [blocks |-> blocks, directory |-> directory]]
    /\ temp_dir = [exists |-> TRUE, files |-> EmptyMap]
    /\ directory_exists = TRUE
    /\ store_hist = [op |-> "reblock", st |-> "running", path |-> "", pre_ids |-> {}, n |-> 0]
    /\ NoCache
    /\ NoServer
    /\ NoCodec
    /\ NoChunker
    /\ NoConn
    /\ NoEmbed

\* embedding_block.to_file(temp/i) for the next block, then the old block
\* files are to be removed
WriteTempBlock ==
    /\ reblock.pc = "write"
    /\ temp_dir' = [temp_dir EXCEPT !.files = Insert(@, reblock.i, reblock.blocks[reblock.i])]
    /\ reblock' = [reblock EXCEPT !.i = @ + 1,
                                  !.pc = IF reblock.i + 1 \in DOMAIN reblock.blocks
                                         THEN "write" ELSE "remove"]
    /\ UNCHANGED <<blocks, directory, directory_exists>>

\* std::fs::remove_file of one file of the data directory whose name is a number
RemoveOldBlock(b) ==
    /\ reblock.pc = "remove"
    /\ b \in DOMAIN blocks
    /\ blocks' = Remove(blocks, b)
    /\ UNCHANGED <<directory, directory_exists, temp_dir, reblock>>

\* std::fs::remove_file of the directory file, the old blocks being removed
RemoveDirectory ==
    /\ reblock.pc = "remove"
    /\ DOMAIN blocks = {}
    /\ directory_exists' = FALSE
    /\ directory' = <<>>
    /\ reblock' = [reblock EXCEPT !.pc = "rename"]
    /\ UNCHANGED <<blocks, temp_dir>>

\* std::fs::rename of one file of temp into the data directory
RenameBlock(b) ==
    /\ reblock.pc = "rename"
    /\ b \in DOMAIN temp_dir.files
    /\ blocks' = Insert(blocks, b, temp_dir.files[b])
    /\ temp_dir' = [temp_dir EXCEPT !.files = Remove(@, b)]
    /\ UNCHANGED <<directory, directory_exists, reblock>>

\* std::fs::remove_dir_all(&temp_dir), every file being renamed
RemoveTempDir ==
    /\ reblock.pc = "rename"
    /\ DOMAIN temp_dir.files = {}
    /\ temp_dir' = NoDir
    /\ reblock' = [reblock EXCEPT !.pc = "directory"]
    /\ UNCHANGED <<blocks, directory, directory_exists>>

\* write_directory(&directory), then Ok(())
WriteDirectory ==
    /\ reblock.pc = "directory"
    /\ directory' = reblock.directory
    /\ directory_exists' = TRUE
    /\ reblock' = [reblock EXCEPT !.pc = "done"]
    /\ UNCHANGED <<blocks, temp_dir>>

NextReblock ==
    /\ \/ WriteTempBlock
       \/ \E b \in DOMAIN blocks : RemoveOldBlock(b)
       \/ RemoveDirectory
       \/ \E b \in DOMAIN temp_dir.files : RenameBlock(b)
       \/ RemoveTempDir
       \/ WriteDirectory
    /\ UNCHANGED <<cacheVars, indexVars, serverVars, codecVars, chunkVars, connVars,
                   embedVars>>

SpecReblock == InitReblock /\ [][NextReblock]_vars

----------------------------------------------------------------------------
(* Claims about reblock's rewrite, under SpecReblock *)

\* C27: wherever reblock stops, the data directory holds the directory file
\* and a complete store: the old blocks with the old directory or the new
\* blocks with the new directory, every id listed found in the block listed
C27_StopsConsistent ==
    /\ directory_exists
    /\ \/ (blocks = reblock.old.blocks /\ directory = reblock.old.directory)
       \/ (blocks = reblock.blocks /\ directory = reblock.directory)
    /\ \A k \in 1..Len(directory) :
          /\ directory[k].block \in DOMAIN blocks
          /\ \E e \in Range(blocks[directory[k].block]) : e.id = directory[k].id

----------------------------------------------------------------------------
(* SpecEmbed: one call of embed_bulk.  The batches are those batch_sources  *)
(* returned; min(NUM_THREADS, batches.len()) worker threads are spawned,    *)
(* each a loop around recv on the shared receiver; embed_bulk sends the     *)
(* batches, drops tx and joins the threads.  The API call of a batch is     *)
(* answered with one embedding per chunk, or fails.                         *)

\* the worker threads of the pool
NUM_THREADS == 2
\* the batches of a call, at most
MaxBatches == 3

\* the batches of a call that has n of them: batch b holds the sources
\* <<b, 1>>, and <<b, 2>> when b is odd
BatchesOf(n) ==
    [b \in 1..n |-> IF b % 2 = 1 THEN <<(<<b, 1>>), (<<b, 2>>)>> ELSE <<(<<b, 1>>)>>]

\* ApiClient::embedding_api_call answered: for (i, datum): the embedding of
\* position i carries source_file batch[i].0
EmbeddingApiCall(batch) == [i \in 1..Len(batch) |-> [id |-> 0, source_file |-> batch[i]]]

\* the batches are made, the threads spawned
InitEmbed ==
    /\ \E n \in 0..MaxBatches :
          /\ bulk = [pc |-> "send", batches |-> BatchesOf(n), sent |-> 0,
                     embeddings |-> <<>>, count |-> 0, failed |-> {},
                     returned |-> <<>>]
          /\ thread_pool = [i \in 1..Min(NUM_THREADS, n) |->
                               [pc |-> "recv", batch |-> <<>>, logged |-> FALSE]]
    /\ channel = [queue |-> <<>>, closed |-> FALSE]
    /\ NoStore
    /\ NoCache
    /\ NoIndex
    /\ NoServer
    /\ NoCodec
    /\ NoChunker
    /\ NoConn
    /\ NoReblock

\* tx.send(batch.clone()) for the next batch; the receiver lives, the send
\* succeeds
SendBatch ==
    /\ bulk.pc = "send"
    /\ bulk.sent < Len(bulk.batches)
    /\ channel' = [channel EXCEPT !.queue = Append(@, bulk.batches[bulk.sent + 1])]
    /\ bulk' = [bulk EXCEPT !.sent = @ + 1]
    /\ UNCHANGED thread_pool

\* drop(tx) after the last send
DropTx ==
    /\ bulk.pc = "send"
    /\ bulk.sent = Len(bulk.batches)
    /\ channel' = [channel EXCEPT !.closed = TRUE]
    /\ bulk' = [bulk EXCEPT !.pc = "join"]
    /\ UNCHANGED thread_pool

\* thread_rx.lock().unwrap().recv() returns Ok(batch)
Recv(i) ==
    /\ thread_pool[i].pc = "recv"
    /\ channel.queue # <<>>
    /\ thread_pool' = [thread_pool EXCEPT ![i].pc = "call", ![i].batch = Head(channel.queue)]
    /\ channel' = [channel EXCEPT !.queue = Tail(@)]
    /\ UNCHANGED bulk

\* recv() returns Err on the closed, empty channel: the arm logs
\* "Thread i exiting" and ends; it holds no break, the loop goes on
RecvDisconnected(i) ==
    /\ thread_pool[i].pc = "recv"
    /\ channel.queue = <<>>
    /\ channel.closed
    /\ thread_pool' = [thread_pool EXCEPT ![i].logged = TRUE]
    /\ UNCHANGED <<channel, bulk>>

\* the API call returned Ok(new_embeddings): embeddings.extend under the
\* lock, *count += 1
CallOk(i) ==
    /\ thread_pool[i].pc = "call"
    /\ bulk' = [bulk EXCEPT !.embeddings = @ \o EmbeddingApiCall(thread_pool[i].batch),
                            !.count = @ + 1]
    /\ thread_pool' = [thread_pool EXCEPT ![i].pc = "recv", ![i].batch = <<>>]
    /\ UNCHANGED channel

\* the API call returned Err: the batch is logged and dropped, continue
CallErr(i) ==
    /\ thread_pool[i].pc = "call"
    /\ bulk' = [bulk EXCEPT !.failed = @ \cup {thread_pool[i].batch}]
    /\ thread_pool' = [thread_pool EXCEPT ![i].pc = "recv", ![i].batch = <<>>]
    /\ UNCHANGED channel

\* thread.join() for every thread of the pool, each join returning when the
\* thread's closure has returned, then Arc::try_unwrap and Ok(embeddings)
JoinAndReturn ==
    /\ bulk.pc = "join"
    /\ \A i \in DOMAIN thread_pool : thread_pool[i].pc = "exited"
    /\ bulk' = [bulk EXCEPT !.pc = "returned", !.returned = <<bulk.embeddings>>]
    /\ UNCHANGED <<channel, thread_pool>>

NextEmbed ==
    /\ \/ SendBatch
       \/ DropTx
       \/ \E i \in DOMAIN thread_pool : Recv(i)
       \/ \E i \in DOMAIN thread_pool : RecvDisconnected(i)
       \/ \E i \in DOMAIN thread_pool : CallOk(i)
       \/ \E i \in DOMAIN thread_pool : CallErr(i)
       \/ JoinAndReturn
    /\ UNCHANGED <<coreVars, codecVars, chunkVars, connVars, reblockVars>>

SpecEmbed == InitEmbed /\ [][NextEmbed]_vars

\* the threads and embed_bulk itself are scheduled: no step that stays
\* possible is put off for ever
SpecEmbedFair == SpecEmbed /\ WF_vars(NextEmbed)

----------------------------------------------------------------------------
(* Claims about embed_bulk, under SpecEmbed and SpecEmbedFair *)

\* every batch was sent, the channel is closed and empty, no call is running
AllHandled ==
    /\ bulk.pc # "send"
    /\ channel.queue = <<>>
    /\ \A i \in DOMAIN thread_pool : thread_pool[i].pc # "call"

\* the batches embedded with success
Succeeded == Range(bulk.batches) \ bulk.failed

\* list is made of the embeddings of the batches bs, each batch once, its
\* embeddings contiguous and in the order of its chunks
RECURSIVE IsConcatenationOf(_, _)
IsConcatenationOf(list, bs) ==
    IF list = <<>> THEN bs = {}
    ELSE \E b \in bs :
            /\ Len(list) >= Len(b)
            /\ SubSeq(list, 1, Len(b)) = EmbeddingApiCall(b)
            /\ IsConcatenationOf(SubSeq(list, Len(b) + 1, Len(list)), bs \ {b})

C34_EmbedBulkReturns == (bulk.pc = "join") ~> (bulk.pc = "returned")
====
